---------------------------- MODULE Spec2Model ----------------------------
(***************************************************************************)
(* A model of the document-to-record extraction back end of RealTajoFCBack *)
(* (classification statistics decoding, matchday fixture extraction, top   *)
(* scorer ordering, record (de)serialization and the matchday repository). *)
(* Each component has its own specification over the shared variables; the *)
(* variables of the components a specification does not exercise keep the  *)
(* value they have after construction.                                     *)
(***************************************************************************)
EXTENDS Integers, Sequences, FiniteSets, TLC

(***************************************************************************)
(* State.                                                                  *)
(***************************************************************************)
\* Statistics decoding (classification_decoders.py, StatisticsDecoder).
VARIABLES
    stats_tokens,   \* the digit tokens of the stats section being decoded
    stats_result    \* NoResult before decode; [path, values] after decode

statsVars == <<stats_tokens, stats_result>>

\* Matchday extraction (matchday_pdf_parser.py, MatchdayPdfParser): the locals
\* of _extract_fixtures keep their names; the md_ variables are the position of
\* parse() in its input and its outcome.
VARIABLES
    fixtures,        \* List[MatchFixture] emitted so far
    team_buffer,     \* buffered team-name fragments (lines)
    pending_home,    \* Optional team name
    pending_away,    \* Optional team name
    pending_scores,  \* Optional pair of goals
    pending_date,    \* Optional ISO date
    pending_time,    \* Optional HH:MM
    awaiting_away,   \* bool
    md_number,       \* Optional round number found by _extract_matchday_number
    md_line,         \* the line the loop has just processed (<<>> before the first)
    md_count,        \* number of lines read
    md_result        \* outcome of parse(): status "running", "error" or "ok"

mdVars == <<fixtures, team_buffer, pending_home, pending_away, pending_scores,
            pending_date, pending_time, awaiting_away, md_number, md_line,
            md_count, md_result>>

\* Top scorer tables (top_scorers_excel_parser.py, top_scorers_pdf_parser.py).
VARIABLES
    scorer_rows,    \* the goals cells of the data rows, in discovery order
    excel_table,    \* outcome of TopScorersExcelParser.parse on those rows
    pdf_table       \* outcome of TopScorersPdfParser.parse on those rows

scVars == <<scorer_rows, excel_table, pdf_table>>

\* Classification extraction (classification_extractor.py,
\* extract_classification); the locals keep their names.
VARIABLES
    normalized_lines,      \* the non-blank lines of the document, normalised
    start_index,           \* Optional 0-based index of the header line
    end_index,             \* Optional 0-based index where the section ends
    classification_table   \* outcome: status "none", "error" or "ok"

clVars == <<normalized_lines, start_index, end_index, classification_table>>

\* Record (de)serialization (domain/models/*.py).
VARIABLES
    instance,       \* the record x under test, tagged with its type
    serialized,     \* outcome of x.to_dict()
    restored,       \* outcome of from_dict(x.to_dict())
    match_payload,  \* the dict handed to RealTajoMatch.from_dict
    match,          \* outcome of RealTajoMatch.from_dict(match_payload)
    match_dict      \* outcome of to_dict() on that match

modelVars == <<instance, serialized, restored, match_payload, match, match_dict>>

\* Matchday repository (json_matchday_repository.py).
VARIABLES
    files,          \* the directory: matchday number |-> stored JSON payload
    repo_call       \* the last repository call and what it returned

repoVars == <<files, repo_call>>

\* Team-scoped projection of a matchday (domain/models/matchday.py).
VARIABLES
    stored_fixtures,   \* Matchday.fixtures of the matchday being served
    requested_team,    \* Optional team name handed to to_dict
    team_payload       \* Optional list: "fixtures" of to_dict(team_name)

teamVars == <<stored_fixtures, requested_team, team_payload>>

\* Calendar parsing (real_tajo_calendar_parser.py): the locals of
\* _extract_real_tajo_matches keep their names.
VARIABLES
    cal_lines,          \* the lines of the document read so far
    team_names,         \* _extract_team_names(lines)
    cal_matches,        \* matches: List[RealTajoMatch] appended so far
    current_stage,      \* Optional stage label
    current_matchday,   \* Optional round number
    current_date,       \* Optional round date
    pending_matchday,   \* Optional round number waiting for its date
    jornada_lines,      \* lines buffered for the current round
    parsed_match,       \* Optional pairing the last finalize resolved
    cal_result          \* outcome of parse(): status "reading", "error" or "ok"

calVars == <<cal_lines, team_names, cal_matches, current_stage, current_matchday,
             current_date, pending_matchday, jornada_lines, parsed_match,
             cal_result>>

\* Grid top scorers (top_scorers_excel_parser.py, TopScorersExcelParser.parse).
VARIABLES
    grid_rows,      \* rows: the cell values _load_excel_rows returned
    grid_table      \* outcome of parse(): status "none", "error" or "ok"

gridVars == <<grid_rows, grid_table>>

\* Free-text top scorers (top_scorers_pdf_parser.py, TopScorersPdfParser.parse).
VARIABLES
    pdf_lines,      \* lines: the normalized lines of the document
    pdf_outcome     \* outcome of parse(): status "none", "error" or "ok"

pdfVars == <<pdf_lines, pdf_outcome>>

\* Row reassembly applied twice (classification_extractor.py, _merge_row_lines).
VARIABLES
    merge_lines,    \* L: the normalized lines handed to the merge
    merged_once,    \* None, or Some(merge(L))
    merged_twice    \* None, or Some(merge(merge(L)))

mergeVars == <<merge_lines, merged_once, merged_twice>>

\* Two extraction calls in flight (matchday_pdf_parser.py,
\* classification_decoders.py, real_tajo_calendar_parser.py).
VARIABLES
    call_frames     \* per call: the extractor, its document, its locals, its result

callVars == <<call_frames>>

\* Segmentation of a glued run of digits (classification_decoders.py,
\* StatisticsDecoder._segment_digits_sequence).
VARIABLES
    seg_digits,     \* the digits handed to _segment_digits_sequence
    seg_solution    \* [done, values]: whether it has returned, and what

segVars == <<seg_digits, seg_solution>>

\* Form-letter consolidation (classification_decoders.py,
\* _normalize_stats_section).
VARIABLES
    form_tokens,     \* section.split(): the tokens of the stats section
    form_normalized  \* [done, tokens]: the tokens joined into the returned string

formVars == <<form_tokens, form_normalized>>

\* Online players (minecraft_log_online_player_repository.py,
\* MinecraftLogOnlinePlayerRepository).
VARIABLES
    log_exists,      \* self._log_path.exists()
    log_lines,       \* the lines of the server log
    online_players   \* [done, sessions]: what retrieve_online_players returned

logVars == <<log_exists, log_lines, online_players>>

vars == <<statsVars, mdVars, scVars, clVars, modelVars, repoVars, teamVars, calVars,
      gridVars, pdfVars, mergeVars, callVars, segVars, formVars, logVars>>

notStatsVars == <<mdVars, scVars, clVars, modelVars, repoVars, teamVars, calVars,
      gridVars, pdfVars, mergeVars, callVars, segVars, formVars, logVars>>
notMdVars == <<statsVars, scVars, clVars, modelVars, repoVars, teamVars, calVars,
      gridVars, pdfVars, mergeVars, callVars, segVars, formVars, logVars>>
notScVars == <<statsVars, mdVars, clVars, modelVars, repoVars, teamVars, calVars,
      gridVars, pdfVars, mergeVars, callVars, segVars, formVars, logVars>>
notClVars == <<statsVars, mdVars, scVars, modelVars, repoVars, teamVars, calVars,
      gridVars, pdfVars, mergeVars, callVars, segVars, formVars, logVars>>
notModelVars == <<statsVars, mdVars, scVars, clVars, repoVars, teamVars, calVars,
      gridVars, pdfVars, mergeVars, callVars, segVars, formVars, logVars>>
notRepoVars == <<statsVars, mdVars, scVars, clVars, modelVars, teamVars, calVars,
      gridVars, pdfVars, mergeVars, callVars, segVars, formVars, logVars>>
notTeamVars == <<statsVars, mdVars, scVars, clVars, modelVars, repoVars, calVars,
      gridVars, pdfVars, mergeVars, callVars, segVars, formVars, logVars>>
notCalVars == <<statsVars, mdVars, scVars, clVars, modelVars, repoVars, teamVars,
      gridVars, pdfVars, mergeVars, callVars, segVars, formVars, logVars>>
notGridVars == <<statsVars, mdVars, scVars, clVars, modelVars, repoVars, teamVars,
      calVars, pdfVars, mergeVars, callVars, segVars, formVars, logVars>>
notPdfVars == <<statsVars, mdVars, scVars, clVars, modelVars, repoVars, teamVars,
      calVars, gridVars, mergeVars, callVars, segVars, formVars, logVars>>
notMergeVars == <<statsVars, mdVars, scVars, clVars, modelVars, repoVars, teamVars,
      calVars, gridVars, pdfVars, callVars, segVars, formVars, logVars>>
notCallVars == <<statsVars, mdVars, scVars, clVars, modelVars, repoVars, teamVars,
      calVars, gridVars, pdfVars, mergeVars, segVars, formVars, logVars>>
notSegVars == <<statsVars, mdVars, scVars, clVars, modelVars, repoVars, teamVars,
      calVars, gridVars, pdfVars, mergeVars, callVars, formVars, logVars>>
notFormVars == <<statsVars, mdVars, scVars, clVars, modelVars, repoVars, teamVars, calVars, gridVars, pdfVars, mergeVars, callVars, segVars, logVars>>
notLogVars == <<statsVars, mdVars, scVars, clVars, modelVars, repoVars, teamVars, calVars, gridVars, pdfVars, mergeVars, callVars, segVars, formVars>>

\* Optional values: None is the empty sequence and Some(x) a one-element one.
None == <<>>
Some(x) == <<x>>

\* "No list": a solution or a decoded vector always has ExpectedValues entries,
\* so the empty list stands for Python's None where a list is expected.
NoList == <<>>

\* The decoder has not produced a result.
NoResult == [path |-> "none", values |-> <<>>]

(***************************************************************************)
(* Statistics decoding: classification_decoders.py, StatisticsDecoder.     *)
(* A stats section is modelled by the list re.findall(r"\d+", section)     *)
(* yields: a sequence of tokens, each a non-empty sequence of digits.      *)
(***************************************************************************)
\* Longest stats section (in digits) the model feeds to the decoder.
MaxDigits == 9

\* Digits the model writes into a stats section.
StatDigits == {0, 1, 3}

\* len(_STAT_KEYS): points, played, wins, draws, losses, goals_for,
\* goals_against, last_points, sanction_points.
ExpectedValues == 9

\* _STAT_LENGTH_RULES: candidate field widths per statistic, widest first.
LengthRules ==
    << <<3, 2, 1>>, <<2, 1>>, <<2, 1>>, <<2, 1>>, <<2, 1>>,
       <<2, 1>>, <<2, 1>>, <<2, 1>>, <<2, 1>> >>

RECURSIVE ToInt(_)
\* int(token) for a token given as its sequence of decimal digits.
ToInt(ds) ==
    IF Len(ds) = 0 THEN 0
    ELSE 10 * ToInt(SubSeq(ds, 1, Len(ds) - 1)) + ds[Len(ds)]

RECURSIVE Concat(_)
\* "".join(token_list)
Concat(tokens) ==
    IF tokens = <<>> THEN <<>> ELSE Head(tokens) \o Concat(Tail(tokens))

Take(s, n) == SubSeq(s, 1, IF Len(s) < n THEN Len(s) ELSE n)

NumericTokens(tokens) == [i \in 1..Len(tokens) |-> ToInt(tokens[i])]

\* _stats_are_consistent without its played == wins + draws + losses test.
StatsAreConsistentNoPlayed(values) ==
    IF Len(values) < ExpectedValues THEN FALSE
    ELSE LET points   == values[1]
             wins     == values[3]
             draws    == values[4]
             last     == values[Len(values) - 1]
             sanction == values[Len(values)]
             computed == wins * 3 + draws - sanction
         IN  /\ computed >= 0
             /\ computed = points
             /\ last >= 0 /\ sanction >= 0

\* StatisticsDecoder._stats_are_consistent
StatsAreConsistent(values) ==
    IF Len(values) < ExpectedValues THEN FALSE
    ELSE LET points   == values[1]
             played   == values[2]
             wins     == values[3]
             draws    == values[4]
             losses   == values[5]
             last     == values[Len(values) - 1]
             sanction == values[Len(values)]
             computed == wins * 3 + draws - sanction
         IN  /\ played = wins + draws + losses
             /\ computed >= 0
             /\ computed = points
             /\ last >= 0 /\ sanction >= 0

\* _partial_stats_are_valid rejecting wins equal to played as well.
PartialStatsAreValidWinsBelowPlayed(values) ==
    IF Len(values) <= 1 THEN TRUE
    ELSE LET played == values[2]
         IN  /\ ~(Len(values) >= 3 /\ values[3] >= played)
             /\ ~(Len(values) >= 4 /\ values[3] + values[4] > played)
             /\ ~(Len(values) >= 5 /\ values[3] + values[4] + values[5] > played)

\* StatisticsDecoder._partial_stats_are_valid
PartialStatsAreValid(values) ==
    IF Len(values) <= 1 THEN TRUE
    ELSE LET played == values[2]
         IN  /\ ~(Len(values) >= 3 /\ values[3] > played)
             /\ ~(Len(values) >= 4 /\ values[3] + values[4] > played)
             /\ ~(Len(values) >= 5 /\ values[3] + values[4] + values[5] > played)

RECURSIVE Backtrack(_, _, _, _)
RECURSIVE TryLengths(_, _, _, _, _)
\* The body of backtrack(stat_index, position); stat_index is 0-based as in
\* the code, values is the list built so far.  Returns the solution or NoList.
Backtrack(digits, values, stat_index, position) ==
    IF stat_index = ExpectedValues
    THEN IF position = Len(digits) /\ StatsAreConsistent(values)
         THEN values ELSE NoList
    ELSE IF Len(digits) - position < ExpectedValues - stat_index
    THEN NoList
    ELSE TryLengths(digits, values, stat_index, position, 1)

\* The for-loop over self._length_rules[stat_index], from its k-th entry.
TryLengths(digits, values, stat_index, position, k) ==
    LET rules == LengthRules[stat_index + 1]
    IN  IF k > Len(rules) THEN NoList
        ELSE LET length == rules[k]
             IN  IF position + length > Len(digits)
                 THEN TryLengths(digits, values, stat_index, position, k + 1)
                 ELSE LET value == ToInt(SubSeq(digits, position + 1, position + length))
                          next  == Append(values, value)
                          found == IF PartialStatsAreValid(next)
                                   THEN Backtrack(digits, next, stat_index + 1,
                                                  position + length)
                                   ELSE NoList
                      IN  IF found # NoList THEN found
                          ELSE TryLengths(digits, values, stat_index, position, k + 1)

\* StatisticsDecoder._segment_digits_sequence
SegmentDigitsSequence(digits) ==
    IF digits = <<>> THEN NoList ELSE Backtrack(digits, <<>>, 0, 0)

\* The padding loop left out: the values stay as they are.
PadWithNothing(values, n, default) == values

RECURSIVE PadWith(_, _, _)
\* while len(values) < n: values.append(default)
PadWith(values, n, default) ==
    IF Len(values) >= n THEN values ELSE PadWith(Append(values, default), n, default)

\* _normalize_values filling every missing statistic with a fixed zero.
NormalizeValuesZeroFill(values, digits) ==
    IF Len(values) >= ExpectedValues THEN Take(values, ExpectedValues)
    ELSE PadWith(values, ExpectedValues, 0)

\* StatisticsDecoder._normalize_values; digits are the digit characters of
\* the section handed in.
NormalizeValues(values, digits) ==
    IF Len(values) >= ExpectedValues THEN Take(values, ExpectedValues)
    ELSE LET last == IF values = <<>> THEN 0 ELSE values[Len(values)]
             default == IF digits = <<>> THEN last
                        ELSE IF \A i \in 1..Len(digits) : digits[i] = 0 THEN 0
                        ELSE last
         IN  PadWith(values, ExpectedValues, default)

\* StatisticsDecoder._pad_missing_values
PadMissingValues(values) ==
    IF Len(values) >= ExpectedValues THEN Take(values, ExpectedValues)
    ELSE PadWith(values, ExpectedValues,
                 IF values = <<>> THEN 0 ELSE values[Len(values)])

\* StatisticsDecoder._decode_from_tokens, returning the values together with
\* the return statement that produced them: "first" (line 59), "segmented"
\* (line 64) or "fallback" (lines 67, 77, 80).
DecodeFromTokens(tokens) ==
    IF tokens = <<>> THEN NoResult
    ELSE LET numeric == NumericTokens(tokens)
             digits  == Concat(tokens)
             segmented == SegmentDigitsSequence(digits)
             \* len(numeric_tokens) is len(token_list); Python's integers are
             \* unbounded, so the values are only computed where they are used.
             count   == Len(tokens)
         IN  IF count >= ExpectedValues
                /\ StatsAreConsistent(Take(numeric, ExpectedValues))
             THEN [path |-> "first", values |-> Take(numeric, ExpectedValues)]
             ELSE IF segmented # NoList
             THEN [path |-> "segmented", values |-> segmented]
             ELSE IF count >= ExpectedValues
             THEN [path |-> "fallback", values |-> Take(numeric, ExpectedValues)]
             ELSE IF count = 1 /\ Len(digits) > 2
             THEN [path |-> "fallback", values |-> NormalizeValues(<<>>, digits)]
             ELSE [path |-> "fallback", values |-> NormalizeValues(numeric, digits)]

\* StatisticsDecoder.decode
Decode(tokens) ==
    LET decoded == DecodeFromTokens(tokens)
        chosen  == IF decoded = NoResult
                   THEN [path |-> "fallback",
                         values |-> NormalizeValues(<<>>, Concat(tokens))]
                   ELSE decoded
    IN  [path |-> chosen.path, values |-> PadMissingValues(chosen.values)]

StatsInit ==
    /\ stats_tokens = <<>>
    /\ stats_result = NoResult

TotalDigits(tokens) == Len(Concat(tokens))

\* The section grows by one digit glued to its only token: the text layer
\* dropped every space between the columns ("311003130").
StatsGlueDigit(d) ==
    /\ stats_result = NoResult
    /\ Len(stats_tokens) = 1
    /\ TotalDigits(stats_tokens) < MaxDigits
    /\ stats_tokens' = [stats_tokens EXCEPT ![Len(stats_tokens)] = Append(@, d)]
    /\ UNCHANGED <<stats_result, notStatsVars>>

\* The section grows by one whitespace-separated single-digit column
\* ("3 1 1 0 0 2 1 3 0").
StatsNewToken(d) ==
    /\ stats_result = NoResult
    /\ \A i \in 1..Len(stats_tokens) : Len(stats_tokens[i]) = 1
    /\ TotalDigits(stats_tokens) < MaxDigits
    /\ stats_tokens' = Append(stats_tokens, <<d>>)
    /\ UNCHANGED <<stats_result, notStatsVars>>

\* StatisticsDecoder.decode(stats_section)
StatsDecode ==
    /\ stats_result = NoResult
    /\ stats_result' = Decode(stats_tokens)
    /\ UNCHANGED <<stats_tokens, notStatsVars>>

(***************************************************************************)
(* Matchday extraction: matchday_pdf_parser.py.                            *)
(* A line is its sequence of whitespace-separated tokens.  A token is a    *)
(* word, a run of digits, a dash, a date (dd-mm-yyyy) or a time (HH:MM).   *)
(* A team name is the token sequence of the cleaned text.                  *)
(***************************************************************************)
\* Most lines the model feeds to one parse() call.
MaxLines == 4

NumTokens == {"0", "1"}
DateTokens == {"11-10-2025"}
TimeTokens == {"15:30"}
WordTokens == {"A", "B", "X", "Descansa", "Campo:", "Jornada", "Resultados"}

\* int(group) for the digit runs of the model.
IntOf(t) == IF t = "0" THEN 0 ELSE 1

\* str.lower() on the tokens of the model.
Lower(t) ==
    CASE t = "Descansa" -> "descansa"
      [] t = "Campo:" -> "campo:"
      [] t = "Jornada" -> "jornada"
      [] t = "Resultados" -> "resultados"
      [] t = "A" -> "a"
      [] t = "B" -> "b"
      [] t = "X" -> "x"
      [] OTHER -> t

\* The lines of the model: team fragments, a fragment carrying the kick-off
\* date, date and time lines, a score line, a team with a trailing score, an
\* inline result, the two bye forms, a venue line and the two header lines.
MdLineSet ==
    { <<"A">>, <<"B">>, <<"X">>,
      <<"B", "11-10-2025">>,
      <<"11-10-2025">>, <<"15:30">>,
      <<"1", "-", "0">>,
      <<"A", "1", "-", "0">>,
      <<"A", "1", "-", "0", "B">>,
      <<"X", "Descansa">>, <<"Descansa", "X">>,
      <<"Campo:", "X">>,
      <<"Jornada", "1">>, <<"Resultados">> }

\* _DATE_RE / _TIME_RE / \d+ on one token.
IsDate(t) == t \in DateTokens
IsTime(t) == t \in TimeTokens
IsNum(t) == t \in NumTokens
IsDash(t) == t = "-"
\* char.isalpha() for some character of the token.
HasAlpha(t) == t \in WordTokens

\* _HEADER_PREFIXES and _METADATA_PREFIXES, as far as the model's words go.
HeaderPrefixes == {"resultados"}
MetadataPrefixes == {"campo:"}

\* MatchdayPdfParser._normalise_date: dd-mm-yyyy to ISO yyyy-mm-dd.
NormaliseDate(t) == IF t = "11-10-2025" THEN "2025-10-11" ELSE t

RECURSIVE DropTokens(_, _)
\* The tokens of a sequence that are not in the given set, in order.
DropTokens(tokens, gone) ==
    IF tokens = <<>> THEN <<>>
    ELSE IF Head(tokens) \in gone THEN DropTokens(Tail(tokens), gone)
    ELSE <<Head(tokens)>> \o DropTokens(Tail(tokens), gone)

RECURSIVE StripDashes(_)
\* text.strip(" -,:") on a token sequence: leading and trailing dashes go.
StripDashes(tokens) ==
    IF tokens = <<>> THEN <<>>
    ELSE IF IsDash(Head(tokens)) THEN StripDashes(Tail(tokens))
    ELSE IF IsDash(tokens[Len(tokens)])
         THEN StripDashes(SubSeq(tokens, 1, Len(tokens) - 1))
    ELSE tokens

\* MatchdayPdfParser._normalise_team_name(fragments).  The date and time
\* patterns are replaced by a space, so a text that begins (ends) with one no
\* longer begins (ends) with "descansa".
NormaliseTeamName(fragments) ==
    LET text == Concat(fragments)
        n == Len(text)
        startsDescansa == n >= 1 /\ Lower(text[1]) = "descansa"
        afterStart == IF startsDescansa THEN Tail(text) ELSE text
        m == Len(afterStart)
        endsDescansa == /\ m >= 2
                        /\ Lower(afterStart[m]) = "descansa"
        afterEnd == IF endsDescansa THEN SubSeq(afterStart, 1, m - 1) ELSE afterStart
    IN  StripDashes(DropTokens(afterEnd, DateTokens \cup TimeTokens \cup {"Campo:"}))

\* _INLINE_RESULT_RE: the least i with line[1..i] the home text, then
\* digits, dash, digits and a non-empty away text; 0 when there is no match.
InlineSplit(line) ==
    LET ok(i) == /\ i + 4 <= Len(line)
                 /\ IsNum(line[i + 1]) /\ IsDash(line[i + 2]) /\ IsNum(line[i + 3])
        hits == {i \in 1..Len(line) : ok(i)}
    IN  IF hits = {} THEN 0 ELSE CHOOSE i \in hits : \A j \in hits : i <= j

\* _TEAM_WITH_TRAILING_SCORE_RE
TrailingScoreMatch(line) ==
    LET n == Len(line)
    IN  n >= 4 /\ IsNum(line[n - 2]) /\ IsDash(line[n - 1]) /\ IsNum(line[n])

\* _SCORE_ONLY_RE
ScoreOnlyMatch(line) ==
    Len(line) = 3 /\ IsNum(line[1]) /\ IsDash(line[2]) /\ IsNum(line[3])

\* "descansa" in lower_line
HasDescansa(line) == \E i \in 1..Len(line) : Lower(line[i]) = "descansa"

\* MatchdayPdfParser._is_team_fragment
IsTeamFragment(line) ==
    /\ Lower(line[1]) \notin MetadataPrefixes
    /\ ~ScoreOnlyMatch(line)
    /\ LET cleaned == NormaliseTeamName(<<line>>)
       IN  \E i \in 1..Len(cleaned) : HasAlpha(cleaned[i])

\* MatchFixture(...)
MatchFixture(home, away, home_score, away_score, bye, date, time) ==
    [home_team |-> home, away_team |-> away, home_score |-> home_score,
     away_score |-> away_score, is_bye |-> bye, date |-> date, time |-> time]

\* A bye fixture that keeps the pending away team and scores.
ByeFixtureKeepingPending(st, team_name) ==
    MatchFixture(team_name, st.pending_away,
                 IF st.pending_scores # None THEN Some(st.pending_scores[1][1]) ELSE None,
                 IF st.pending_scores # None THEN Some(st.pending_scores[1][2]) ELSE None,
                 TRUE, None, None)

\* The bye fixture of consume_team_buffer (lines 128-136); st are the locals.
ByeFixture(st, team_name) ==
    MatchFixture(team_name, None, None, None, TRUE, None, None)

\* The locals of _extract_fixtures as one record.
MdState ==
    [fixtures |-> fixtures, team_buffer |-> team_buffer,
     pending_home |-> pending_home, pending_away |-> pending_away,
     pending_scores |-> pending_scores, pending_date |-> pending_date,
     pending_time |-> pending_time, awaiting_away |-> awaiting_away]

\* The assignments that clear the pending fixture (lines 111-116, 137-142).
ClearPending(st) ==
    [st EXCEPT !.pending_home = None, !.pending_away = None,
               !.pending_scores = None, !.pending_date = None,
               !.pending_time = None, !.awaiting_away = FALSE]

\* finalize_fixture without its test of pending_away.
FinalizeFixtureWithoutAway(st) ==
    IF st.pending_home = None THEN st
    ELSE ClearPending(
           [st EXCEPT !.fixtures = Append(@,
               MatchFixture(st.pending_home[1], st.pending_away,
                   IF st.pending_scores # None THEN Some(st.pending_scores[1][1]) ELSE None,
                   IF st.pending_scores # None THEN Some(st.pending_scores[1][2]) ELSE None,
                   FALSE, st.pending_date, st.pending_time))])

\* _extract_fixtures.finalize_fixture
FinalizeFixture(st) ==
    IF st.pending_home = None \/ st.pending_away = None THEN st
    ELSE ClearPending(
           [st EXCEPT !.fixtures = Append(@,
               MatchFixture(st.pending_home[1], st.pending_away,
                   IF st.pending_scores # None THEN Some(st.pending_scores[1][1]) ELSE None,
                   IF st.pending_scores # None THEN Some(st.pending_scores[1][2]) ELSE None,
                   FALSE, st.pending_date, st.pending_time))])

\* _extract_fixtures.consume_team_buffer(on_score_line)
ConsumeTeamBuffer(st, on_score_line) ==
    IF st.team_buffer = <<>> THEN st
    ELSE
    LET fragments == st.team_buffer
        s0 == [st EXCEPT !.team_buffer = <<>>]
        name == NormaliseTeamName(fragments)
    IN  IF HasDescansa(Concat(fragments))
        THEN ClearPending(
               IF name # <<>>
               THEN [s0 EXCEPT !.fixtures = Append(@, ByeFixture(s0, name))]
               ELSE s0)
        ELSE IF on_score_line /\ s0.pending_home = None /\ Len(fragments) >= 2
        THEN LET home_name == NormaliseTeamName(SubSeq(fragments, 1, Len(fragments) - 1))
                 away_name == NormaliseTeamName(<<fragments[Len(fragments)]>>)
                 s1 == IF home_name # <<>>
                       THEN [s0 EXCEPT !.pending_home = Some(home_name)] ELSE s0
             IN  IF away_name # <<>>
                 THEN [s1 EXCEPT !.pending_away = Some(away_name), !.awaiting_away = FALSE]
                 ELSE [s1 EXCEPT !.awaiting_away = TRUE]
        ELSE IF name = <<>> THEN s0
        ELSE IF s0.pending_home = None
        THEN [s0 EXCEPT !.pending_home = Some(name),
                        !.awaiting_away = s0.awaiting_away \/ on_score_line]
        ELSE IF s0.pending_away = None \/ s0.awaiting_away
        THEN [s0 EXCEPT !.pending_away = Some(name), !.awaiting_away = FALSE]
        ELSE LET s2 == FinalizeFixture(s0)
             IN  [s2 EXCEPT !.pending_home = Some(name), !.pending_away = None,
                            !.pending_scores = None, !.pending_date = None,
                            !.pending_time = None, !.awaiting_away = on_score_line]

\* Lines 184-189: a date or a time anywhere in the line is remembered.
RememberDateTime(st, line) ==
    LET dates == {i \in 1..Len(line) : IsDate(line[i])}
        times == {i \in 1..Len(line) : IsTime(line[i])}
        first(S) == CHOOSE i \in S : \A j \in S : i <= j
        s1 == IF dates # {}
              THEN [st EXCEPT !.pending_date = Some(NormaliseDate(line[first(dates)]))]
              ELSE st
    IN  IF times # {} THEN [s1 EXCEPT !.pending_time = Some(line[first(times)])] ELSE s1

\* Lines 191-213: the inline "TEAM h - a TEAM2" branch.
InlineBranch(st, line) ==
    LET i == InlineSplit(line)
        s1 == FinalizeFixture(ConsumeTeamBuffer(st, FALSE))
        home_team == NormaliseTeamName(<<SubSeq(line, 1, i)>>)
        away_team == NormaliseTeamName(<<SubSeq(line, i + 4, Len(line))>>)
        s2 == [s1 EXCEPT !.fixtures = Append(@,
                  MatchFixture(home_team, Some(away_team),
                               Some(IntOf(line[i + 1])), Some(IntOf(line[i + 3])),
                               FALSE, s1.pending_date, s1.pending_time))]
    IN  [s2 EXCEPT !.pending_home = None, !.pending_away = None,
                   !.pending_scores = None, !.pending_date = None,
                   !.pending_time = None]

\* Lines 215-235: the "TEAM h - a" branch.
TrailingScoreBranch(st, line) ==
    LET n == Len(line)
        s1 == ConsumeTeamBuffer(st, FALSE)
        team_name == NormaliseTeamName(<<SubSeq(line, 1, n - 3)>>)
        scores == Some(<<IntOf(line[n - 2]), IntOf(line[n])>>)
    IN  IF team_name = <<>> THEN s1
        ELSE LET s2 == IF s1.pending_home = None
                       THEN [s1 EXCEPT !.pending_home = Some(team_name)]
                       ELSE IF s1.pending_away = None
                       THEN [s1 EXCEPT !.pending_away = Some(team_name)]
                       ELSE [FinalizeFixture(s1) EXCEPT
                                !.pending_home = Some(team_name),
                                !.pending_away = None]
             IN  [s2 EXCEPT !.pending_scores = scores, !.awaiting_away = FALSE]

\* Lines 237-240: the bye branch.
DescansaBranch(st, line) ==
    ConsumeTeamBuffer([st EXCEPT !.team_buffer = Append(@, line)], FALSE)

\* Lines 242-249: the score-only branch.
ScoreOnlyBranch(st, line) ==
    LET s1 == ConsumeTeamBuffer(st, TRUE)
    IN  IF s1.pending_home = None /\ s1.pending_away = None THEN s1
        ELSE [s1 EXCEPT !.pending_scores = Some(<<IntOf(line[1]), IntOf(line[3])>>),
                        !.awaiting_away = (s1.pending_away = None)]

\* Lines 251-255: a team-name fragment.
FragmentBranch(st, line) ==
    LET s1 == IF st.pending_home # None /\ st.pending_away # None /\ ~st.awaiting_away
              THEN FinalizeFixture(st) ELSE st
    IN  [s1 EXCEPT !.team_buffer = Append(@, line)]

\* One iteration of the loop over lines (lines 173-258).
ProcessLine(st, line) ==
    IF Lower(line[1]) = "jornada" \/ Lower(line[1]) \in HeaderPrefixes THEN st
    ELSE LET s1 == RememberDateTime(st, line)
         IN  IF InlineSplit(line) # 0 THEN InlineBranch(s1, line)
             ELSE IF TrailingScoreMatch(line) THEN TrailingScoreBranch(s1, line)
             ELSE IF HasDescansa(line) THEN DescansaBranch(s1, line)
             ELSE IF ScoreOnlyMatch(line) THEN ScoreOnlyBranch(s1, line)
             ELSE IF IsTeamFragment(line) THEN FragmentBranch(s1, line)
             ELSE FinalizeFixture(ConsumeTeamBuffer(s1, FALSE))

\* Lines 260-261: the flush after the last line.
EndOfInput(st) == FinalizeFixture(ConsumeTeamBuffer(st, FALSE))

\* re.search(r"jornada\s+(\d+)", line, re.IGNORECASE) of
\* _extract_matchday_number: the number after the first "jornada", or None.
JornadaNumber(line) ==
    LET hits == {i \in 1..(Len(line) - 1) :
                    Lower(line[i]) = "jornada" /\ IsNum(line[i + 1])}
    IN  IF hits = {} THEN None
        ELSE Some(IntOf(line[(CHOOSE i \in hits : \A j \in hits : i <= j) + 1]))

Running == [status |-> "running"]

\* parse() without its "if not fixtures" test.
ParseOutcomeNoFixtureTest(number, fs) ==
    IF number = None THEN [status |-> "error", error |-> "number"]
    ELSE [status |-> "ok", number |-> number[1], fixtures |-> fs]

\* MatchdayPdfParser.parse, after the scan: ValueError without a round number
\* or without fixtures, Matchday(number, fixtures) otherwise.
ParseOutcome(number, fs) ==
    IF number = None THEN [status |-> "error", error |-> "number"]
    ELSE IF fs = <<>> THEN [status |-> "error", error |-> "fixtures"]
    ELSE [status |-> "ok", number |-> number[1], fixtures |-> fs]

MdInit ==
    /\ fixtures = <<>>
    /\ team_buffer = <<>>
    /\ pending_home = None
    /\ pending_away = None
    /\ pending_scores = None
    /\ pending_date = None
    /\ pending_time = None
    /\ awaiting_away = FALSE
    /\ md_number = None
    /\ md_line = <<>>
    /\ md_count = 0
    /\ md_result = Running

MdAssign(st) ==
    /\ fixtures' = st.fixtures
    /\ team_buffer' = st.team_buffer
    /\ pending_home' = st.pending_home
    /\ pending_away' = st.pending_away
    /\ pending_scores' = st.pending_scores
    /\ pending_date' = st.pending_date
    /\ pending_time' = st.pending_time
    /\ awaiting_away' = st.awaiting_away

\* parse() reads one more line: _extract_matchday_number looks at it and the
\* loop of _extract_fixtures processes it.
MdReadLine(line) ==
    /\ md_result = Running
    /\ md_count < MaxLines
    /\ MdAssign(ProcessLine(MdState, line))
    /\ md_number' = IF md_number = None THEN JornadaNumber(line) ELSE md_number
    /\ md_line' = line
    /\ md_count' = md_count + 1
    /\ UNCHANGED <<md_result, notMdVars>>

\* The input ends: the final flush, then parse() raises or returns.
MdFinish ==
    /\ md_result = Running
    /\ LET st == EndOfInput(MdState)
       IN  /\ MdAssign(st)
           /\ md_result' = ParseOutcome(md_number, st.fixtures)
    /\ UNCHANGED <<md_number, md_line, md_count, notMdVars>>

MdNext ==
    \/ \E line \in MdLineSet : MdReadLine(line)
    \/ MdFinish

(***************************************************************************)
(* Top scorer ordering: top_scorers_excel_parser.py and                    *)
(* top_scorers_pdf_parser.py.  A data row is represented by its goals      *)
(* cell, the whitespace-separated tokens of the text between the matches   *)
(* column and the ratio column; the player is named by the index at which  *)
(* the row was discovered.                                                 *)
(***************************************************************************)
\* Most data rows the model feeds to one parse() call.
MaxScorers == 3

\* Goals cells: blank, text without a number, and totals of 0 and 1.
GoalsCells == {<<>>, <<"-">>, <<"0">>, <<"1">>}

RECURSIVE FirstNumber(_)
\* The first run of digits of the text, as an Optional int.
FirstNumber(tokens) ==
    IF tokens = <<>> THEN None
    ELSE IF IsNum(Head(tokens)) THEN Some(IntOf(Head(tokens)))
    ELSE FirstNumber(Tail(tokens))

\* _parse_goals_cell(value)[0]: None for a blank cell, else the first number.
ParseGoalsCell(cell) == IF cell = <<>> THEN None ELSE FirstNumber(cell)

\* _extract_goals_total(goals_tokens)
ExtractGoalsTotal(tokens) == FirstNumber(tokens)

\* TopScorerEntry, as far as the ordering goes.
TopScorerEntry(player, goals_total) ==
    [player |-> player, goals_total |-> goals_total]

\* Python's `x or default` on an Optional int: None and 0 are both falsy.
OrDefault(x, default) ==
    IF x = None \/ x[1] = 0 THEN default ELSE x[1]

\* _goals_value(entry)
GoalsValue(entry) ==
    IF entry.goals_total # None THEN entry.goals_total[1] ELSE -1

\* The key of the Excel parser's sort: (-(goals_total or -1), index).
ExcelSortKey(index, entry) == <<-(OrDefault(entry.goals_total, -1)), index>>

\* The key of the PDF parser's sort: (-_goals_value(entry), index).
PdfSortKey(index, entry) == <<-GoalsValue(entry), index>>

\* Tuple comparison of two (value, index) keys.
KeyBefore(a, b) == a[1] < b[1] \/ (a[1] = b[1] /\ a[2] < b[2])

RECURSIVE InsertByKey(_, _)
InsertByKey(sorted, item) ==
    IF sorted = <<>> THEN <<item>>
    ELSE IF KeyBefore(item.key, Head(sorted).key) THEN <<item>> \o sorted
    ELSE <<Head(sorted)>> \o InsertByKey(Tail(sorted), item)

RECURSIVE SortByKey(_)
\* list.sort(key=...): ascending in the key, stable.
SortByKey(items) ==
    IF items = <<>> THEN <<>>
    ELSE InsertByKey(SortByKey(SubSeq(items, 1, Len(items) - 1)),
                     items[Len(items)])

Entries(sorted) == [i \in 1..Len(sorted) |-> sorted[i].entry]

NoTable == [status |-> "none", scorers |-> <<>>]

\* TopScorersExcelParser.parse from the data rows on: the entries, the
\* ValueError when there are none, the sort.
ExcelParse(rows) ==
    LET scorers == [i \in 1..Len(rows) |->
                       TopScorerEntry(i, ParseGoalsCell(rows[i]))]
        indexed == [i \in 1..Len(scorers) |->
                       [key |-> ExcelSortKey(i - 1, scorers[i]), entry |-> scorers[i]]]
    IN  IF scorers = <<>> THEN [status |-> "error", scorers |-> <<>>]
        ELSE [status |-> "ok", scorers |-> Entries(SortByKey(indexed))]

\* TopScorersPdfParser.parse from the row groups on.
PdfParse(rows) ==
    LET entries == [i \in 1..Len(rows) |->
                       TopScorerEntry(i, ExtractGoalsTotal(rows[i]))]
        indexed_entries == [i \in 1..Len(entries) |->
                       [key |-> PdfSortKey(i - 1, entries[i]), entry |-> entries[i]]]
    IN  IF rows = <<>> THEN [status |-> "error", scorers |-> <<>>]
        ELSE [status |-> "ok", scorers |-> Entries(SortByKey(indexed_entries))]

ScInit ==
    /\ scorer_rows = <<>>
    /\ excel_table = NoTable
    /\ pdf_table = NoTable

\* The document has one more data row.
ScAddRow(cell) ==
    /\ excel_table = NoTable /\ pdf_table = NoTable
    /\ Len(scorer_rows) < MaxScorers
    /\ scorer_rows' = Append(scorer_rows, cell)
    /\ UNCHANGED <<excel_table, pdf_table, notScVars>>

\* TopScorersExcelParser.parse(document_bytes)
ScParseExcel ==
    /\ excel_table = NoTable
    /\ excel_table' = ExcelParse(scorer_rows)
    /\ UNCHANGED <<scorer_rows, pdf_table, notScVars>>

\* TopScorersPdfParser.parse(document_bytes)
ScParsePdf ==
    /\ pdf_table = NoTable
    /\ pdf_table' = PdfParse(scorer_rows)
    /\ UNCHANGED <<scorer_rows, excel_table, notScVars>>

ScNext ==
    \/ \E cell \in GoalsCells : ScAddRow(cell)
    \/ ScParseExcel
    \/ ScParsePdf

(***************************************************************************)
(* Classification extraction: classification_extractor.py.                 *)
(* A normalised line is a sequence of pieces: a maximal run of digits, a   *)
(* single space, or a maximal run of other characters (a word).            *)
(***************************************************************************)
\* Most lines the model feeds to one extract_classification() call.
MaxClassificationLines == 4

\* The three kinds of piece.
DigitsPiece(ds) == [digits |-> ds, word |-> ""]
WordPiece(w) == [digits |-> <<>>, word |-> w]
SpacePiece == [digits |-> <<>>, word |-> " "]

IsDigitsPiece(p) == p.digits # <<>>
IsSpacePiece(p) == p.word = " "

\* _ROW_HAS_LETTER_PATTERN on a piece: every word of the model but "(*)".
PieceHasLetter(p) == p.word \notin {"", " ", "(*)"}

\* str.casefold() on the words of the model.
Casefold(w) ==
    CASE w \in {"Equipos", "EQUIPOS"} -> "equipos"
      [] w = "Puntos" -> "puntos"
      [] w = "Partidos" -> "partidos"
      [] w = "Resultado" -> "resultado"
      [] w = "Liga" -> "liga"
      [] w = "EQUIPOA" -> "equipoa"
      [] w = "B" -> "b"
      [] w = "C" -> "c"
      [] OTHER -> w

\* The lines of the model's documents.
ClassificationLineSet ==
    { <<WordPiece("Equipos"), SpacePiece, WordPiece("Puntos")>>,
      <<WordPiece("Partidos")>>,
      <<WordPiece("EQUIPOS")>>,
      <<WordPiece("Liga")>>,
      <<DigitsPiece(<<1>>), WordPiece("EQUIPOA"), SpacePiece,
        DigitsPiece(<<3>>), SpacePiece, DigitsPiece(<<1>>), SpacePiece,
        DigitsPiece(<<1>>), SpacePiece, DigitsPiece(<<0>>), SpacePiece,
        DigitsPiece(<<0>>), SpacePiece, DigitsPiece(<<2>>), SpacePiece,
        DigitsPiece(<<1>>), SpacePiece, DigitsPiece(<<3>>), SpacePiece,
        DigitsPiece(<<0>>)>>,
      <<DigitsPiece(<<2>>), SpacePiece, WordPiece("B"), SpacePiece,
        DigitsPiece(<<0, 0, 0, 0, 0, 0, 0, 0, 0>>)>>,
      <<DigitsPiece(<<3>>), SpacePiece, WordPiece("C")>>,
      <<DigitsPiece(<<1>>), SpacePiece, DigitsPiece(<<0>>)>>,
      <<WordPiece("(*)"), SpacePiece, WordPiece("Resultado"), SpacePiece,
        WordPiece("provisional")>> }

Min(S) == CHOOSE x \in S : \A y \in S : x <= y

\* "equipos" in line.casefold()
ContainsEquipos(line) ==
    \E i \in 1..Len(line) : Casefold(line[i].word) = "equipos"

\* "resultado provisional" in lowered_line or lowered_line.startswith("(*)")
IsSectionEnd(line) ==
    \/ \E i \in 1..Len(line) - 2 :
          /\ Casefold(line[i].word) = "resultado"
          /\ IsSpacePiece(line[i + 1])
          /\ Casefold(line[i + 2].word) = "provisional"
    \/ (line # <<>> /\ line[1].word = "(*)")

\* _find_section_start that answers 0 where the code raises.
FindSectionStartOrZero(lines) ==
    LET hits == {i \in 0..Len(lines) - 1 : ContainsEquipos(lines[i + 1])}
    IN  IF hits = {} THEN Some(0) ELSE Some(Min(hits))

\* _find_section_start: the 0-based index of the first line containing
\* "equipos", None where the code raises ValueError.
FindSectionStart(lines) ==
    LET hits == {i \in 0..Len(lines) - 1 : ContainsEquipos(lines[i + 1])}
    IN  IF hits = {} THEN None ELSE Some(Min(hits))

\* _find_section_end
FindSectionEnd(lines, start) ==
    LET hits == {i \in start..Len(lines) - 1 : IsSectionEnd(lines[i + 1])}
    IN  IF hits = {} THEN Len(lines) ELSE Min(hits)

RECURSIVE LStrip(_)
LStrip(line) ==
    IF line # <<>> /\ IsSpacePiece(Head(line)) THEN LStrip(Tail(line)) ELSE line

RECURSIVE RStrip(_)
RStrip(line) ==
    IF line # <<>> /\ IsSpacePiece(line[Len(line)])
    THEN RStrip(SubSeq(line, 1, Len(line) - 1)) ELSE line

\* str.strip()
Strip(line) == RStrip(LStrip(line))

\* _is_row_start
IsRowStart(line) ==
    /\ line # <<>> /\ IsDigitsPiece(line[1])
    /\ \E i \in 1..Len(line) : PieceHasLetter(line[i])

\* The fragment put in front of the row it continues.
JoinFragmentInFront(current_row, line) == Strip(line \o <<SpacePiece>> \o current_row)

\* f"{current_row} {line}".strip()
JoinFragment(current_row, line) == Strip(current_row \o <<SpacePiece>> \o line)

RECURSIVE MergeFrom(_, _, _)
\* The loop of _merge_row_lines over the remaining lines; current_row is
\* None or Some(row), and an empty row is falsy.
MergeFrom(lines, merged_rows, current_row) ==
    LET open == current_row # None /\ current_row[1] # <<>>
    IN  IF lines = <<>>
        THEN IF open THEN Append(merged_rows, Strip(current_row[1]))
             ELSE merged_rows
        ELSE LET line == Head(lines)
             IN  IF IsRowStart(line)
                 THEN MergeFrom(Tail(lines),
                                IF open THEN Append(merged_rows, Strip(current_row[1]))
                                ELSE merged_rows,
                                Some(line))
                 ELSE IF open
                 THEN MergeFrom(Tail(lines), merged_rows,
                                Some(JoinFragment(current_row[1], line)))
                 ELSE MergeFrom(Tail(lines), merged_rows, current_row)

\* _merge_row_lines
MergeRowLines(lines) == MergeFrom(lines, <<>>, None)

\* _should_split_token
ShouldSplitToken(token, remaining_slots, tokens_left) ==
    IF remaining_slots <= tokens_left THEN FALSE
    ELSE IF Len(token) <= 2 THEN FALSE
    ELSE IF Cardinality({token[i] : i \in 1..Len(token)}) = 1 THEN TRUE
    ELSE tokens_left = 1

RECURSIVE FallbackValues(_, _, _)
\* The token loop of _decode_stats_from_tokens (lines 261-275), from the
\* 0-based index on.
FallbackValues(tokens, index, values) ==
    IF index >= Len(tokens) \/ Len(values) >= ExpectedValues THEN values
    ELSE LET token == tokens[index + 1]
             remaining_slots == ExpectedValues - Len(values)
             tokens_left == Len(tokens) - index
         IN  IF ShouldSplitToken(token, remaining_slots, tokens_left)
             THEN FallbackValues(tokens, index + 1,
                                 Take(values \o token, ExpectedValues))
             ELSE FallbackValues(tokens, index + 1, Append(values, ToInt(token)))

\* _decode_stats_from_tokens of the extractor.  Its helpers
\* _stats_are_consistent, _segment_digits_sequence and _normalize_stat_values
\* are the same functions as StatisticsDecoder's, modelled above.
DecodeStatsFromTokens(tokens) ==
    IF tokens = <<>> THEN NoList
    ELSE LET numeric == NumericTokens(tokens)
             digits_sequence == Concat(tokens)
             segmented_values == SegmentDigitsSequence(digits_sequence)
         IN  IF Len(tokens) >= ExpectedValues
                /\ StatsAreConsistent(Take(numeric, ExpectedValues))
             THEN Take(numeric, ExpectedValues)
             ELSE IF segmented_values # NoList THEN segmented_values
             ELSE IF Len(tokens) >= ExpectedValues
             THEN Take(numeric, ExpectedValues)
             ELSE NormalizeValues(FallbackValues(tokens, 0, <<>>), digits_sequence)

\* _extract_stat_values
ExtractStatValues(tokens) ==
    LET values == DecodeStatsFromTokens(tokens)
    IN  PadMissingValues(IF values = NoList
                         THEN NormalizeValues(<<>>, Concat(tokens))
                         ELSE values)

\* re.findall(r"\d+", stats_section)
DigitTokens(pieces) ==
    LET ds == SelectSeq(pieces, IsDigitsPiece)
    IN  [i \in 1..Len(ds) |-> ds[i].digits]

\* _parse_row: Some(row), or None where the code returns None.
ParseRow(line) ==
    IF line = <<>> \/ ~IsDigitsPiece(line[1]) THEN None
    ELSE LET position == ToInt(line[1].digits)
             body == Strip(Tail(line))
             starts == {k \in 1..Len(body) :
                          /\ IsDigitsPiece(body[k])
                          /\ \A j \in k..Len(body) :
                                IsDigitsPiece(body[j]) \/ IsSpacePiece(body[j])}
             stats_section == IF starts = {} THEN <<>>
                              ELSE SubSeq(body, Min(starts), Len(body))
             team == IF starts = {} THEN body
                     ELSE Strip(SubSeq(body, 1, Min(starts) - 1))
         IN  IF body = <<>> \/ team = <<>> THEN None
             ELSE Some([position |-> position, team |-> team,
                        stats |-> ExtractStatValues(DigitTokens(stats_section)),
                        raw |-> line])

RECURSIVE ParseRows(_)
\* The loop of extract_classification over row_lines.
ParseRows(row_lines) ==
    IF row_lines = <<>> THEN <<>>
    ELSE LET parsed_row == ParseRow(Head(row_lines))
         IN  (IF parsed_row # None THEN parsed_row ELSE <<>>)
                \o ParseRows(Tail(row_lines))

NoClassification == [status |-> "none", headers |-> <<>>, rows |-> <<>>]

\* ClassificationTable(headers=..., rows=...)
ClassificationTable(headers, rows) ==
    [status |-> "ok", headers |-> headers, rows |-> rows]

\* extract_classification from start_index and end_index on.
ExtractSection(lines, start, end) ==
    LET section_lines == SubSeq(lines, start + 1, end)
        headers == IF Len(section_lines) >= 2 THEN SubSeq(section_lines, 1, 2)
                   ELSE section_lines
        row_lines == MergeRowLines(SubSeq(section_lines, Len(headers) + 1,
                                          Len(section_lines)))
    IN  IF section_lines = <<>> THEN ClassificationTable(<<>>, <<>>)
        ELSE ClassificationTable(headers, ParseRows(row_lines))

ClInit ==
    /\ normalized_lines = <<>>
    /\ start_index = None
    /\ end_index = None
    /\ classification_table = NoClassification

\* The document has one more line.
ClAddLine(line) ==
    /\ classification_table = NoClassification
    /\ Len(normalized_lines) < MaxClassificationLines
    /\ normalized_lines' = Append(normalized_lines, line)
    /\ UNCHANGED <<start_index, end_index, classification_table, notClVars>>

\* extract_classification(document)
ClExtract ==
    /\ classification_table = NoClassification
    /\ LET start == FindSectionStart(normalized_lines)
       IN  IF start = None
           THEN /\ classification_table' =
                       [status |-> "error", headers |-> <<>>, rows |-> <<>>]
                /\ UNCHANGED <<start_index, end_index>>
           ELSE LET end == FindSectionEnd(normalized_lines, start[1])
                IN  /\ start_index' = start
                    /\ end_index' = Some(end)
                    /\ classification_table' =
                           ExtractSection(normalized_lines, start[1], end)
    /\ UNCHANGED <<normalized_lines, notClVars>>

ClNext ==
    \/ \E line \in ClassificationLineSet : ClAddLine(line)
    \/ ClExtract

(***************************************************************************)
(* Record (de)serialization: domain/models/*.py.                           *)
(* A str is its sequence of tokens, the token " " standing for white       *)
(* space, so "" is <<>>; a dict is a record under its JSON keys, a key     *)
(* that is absent or null being None; a float is the pair of its numerator *)
(* and denominator; a date is a record of year, month and day.             *)
(***************************************************************************)
\* Longest list (fixtures, rows, matches, scorers) inside a record under test.
MaxItems == 1

\* Largest matchday number of the model.
MaxNumber == 3

SeqsUpTo(S, n) == UNION {[1..k -> S] : k \in 0..n}

\* What a call produced: a value, or an exception.
Ok(v) == [status |-> "ok", value |-> v]
Raised == [status |-> "raised", value |-> <<>>]
NotYet == [status |-> "none", value |-> <<>>]

RECURSIVE TextLStrip(_)
TextLStrip(t) == IF t # <<>> /\ Head(t) = " " THEN TextLStrip(Tail(t)) ELSE t

RECURSIVE TextRStrip(_)
TextRStrip(t) ==
    IF t # <<>> /\ t[Len(t)] = " " THEN TextRStrip(SubSeq(t, 1, Len(t) - 1)) ELSE t

\* str(value).strip()
TextStrip(t) == TextRStrip(TextLStrip(t))

\* str(value).strip() if value is not None else None
OptionalTextStrip(o) == IF o = None THEN None ELSE Some(TextStrip(o[1]))

\* datetime.date values of the model.
DateMin == [year |-> 1, month |-> 1, day |-> 1]
Dates == {[year |-> 2025, month |-> 10, day |-> 18],
          [year |-> 2024, month |-> 11, day |-> 2]}

\* date.isoformat()
Isoformat(d) ==
    CASE d = [year |-> 2025, month |-> 10, day |-> 18] -> "2025-10-18"
      [] d = [year |-> 2024, month |-> 11, day |-> 2] -> "2024-11-02"
      [] d = DateMin -> "0001-01-01"

\* datetime.strptime(value, "%Y-%m-%d").date(), None where it raises
\* ValueError.
Strptime(text) ==
    CASE text = "2025-10-18" -> Some([year |-> 2025, month |-> 10, day |-> 18])
      [] text = "2024-11-02" -> Some([year |-> 2024, month |-> 11, day |-> 2])
      [] text = "0001-01-01" -> Some(DateMin)
      [] OTHER -> None

\* MatchFixture.to_dict() (no team name given)
MatchFixtureToDict(f) ==
    [homeTeam |-> f.home_team, awayTeam |-> f.away_team,
     homeScore |-> f.home_score, awayScore |-> f.away_score,
     isBye |-> f.is_bye, date |-> f.date, time |-> f.time]

\* MatchFixture.from_dict
MatchFixtureFromDict(data) ==
    MatchFixture(TextStrip(data.homeTeam), OptionalTextStrip(data.awayTeam),
                 data.homeScore, data.awayScore, data.isBye,
                 OptionalTextStrip(data.date), OptionalTextStrip(data.time))

\* Matchday(number, fixtures)
Matchday(number, fs) == [number |-> number, fixtures |-> fs]

\* Matchday.to_dict() (no team name given)
MatchdayToDict(m) ==
    [matchdayNumber |-> m.number,
     fixtures |-> [i \in 1..Len(m.fixtures) |-> MatchFixtureToDict(m.fixtures[i])]]

\* Matchday.from_dict
MatchdayFromDict(data) ==
    Matchday(data.matchdayNumber,
             [i \in 1..Len(data.fixtures) |-> MatchFixtureFromDict(data.fixtures[i])])

\* ClassificationLastMatchTeam.to_dict / from_dict
LastMatchTeamToDict(t) == [name |-> t.name, score |-> t.score]
LastMatchTeamFromDict(data) == [name |-> TextStrip(data.name), score |-> data.score]

\* ClassificationLastMatch.to_dict
LastMatchToDict(lm) ==
    [matchday |-> lm.matchday,
     date |-> IF lm.date # None THEN Some(Isoformat(lm.date[1])) ELSE None,
     home_team |-> LastMatchTeamToDict(lm.home_team),
     away_team |-> LastMatchTeamToDict(lm.away_team)]

\* ClassificationLastMatch.from_dict
LastMatchFromDict(data) ==
    [matchday |-> data.matchday,
     date |-> IF data.date # None THEN Strptime(data.date[1]) ELSE None,
     home_team |-> LastMatchTeamFromDict(data.home_team),
     away_team |-> LastMatchTeamFromDict(data.away_team)]

\* ClassificationRow.to_dict
ClassificationRowToDict(row) ==
    [position |-> row.position, team |-> row.team, points |-> row.stats.points,
     matches |-> [played |-> row.stats.played, wins |-> row.stats.wins,
                  draws |-> row.stats.draws, losses |-> row.stats.losses],
     goals |-> [for |-> row.stats.goals_for, against |-> row.stats.goals_against],
     recent_form |-> [points |-> row.stats.last_points],
     sanction |-> [points |-> row.stats.sanction_points],
     raw |-> row.raw]

\* ClassificationRow.from_dict
ClassificationRowFromDict(data) ==
    [position |-> data.position, team |-> data.team,
     stats |-> [points |-> data.points, played |-> data.matches.played,
                wins |-> data.matches.wins, draws |-> data.matches.draws,
                losses |-> data.matches.losses, goals_for |-> data.goals.for,
                goals_against |-> data.goals.against,
                last_points |-> data.recent_form.points,
                sanction_points |-> data.sanction.points],
     raw |-> data.raw]

\* ClassificationTable.to_dict (models/classification.py)
ClassificationTableToDict(table) ==
    [metadata |-> [headers |-> table.headers],
     teams |-> [i \in 1..Len(table.rows) |-> ClassificationRowToDict(table.rows[i])],
     last_match |-> IF table.last_match # None
                    THEN Some(LastMatchToDict(table.last_match[1])) ELSE None]

\* ClassificationTable.from_dict
ClassificationTableFromDict(data) ==
    [headers |-> data.metadata.headers,
     rows |-> [i \in 1..Len(data.teams) |-> ClassificationRowFromDict(data.teams[i])],
     last_match |-> IF data.last_match # None
                    THEN Some(LastMatchFromDict(data.last_match[1])) ELSE None]

\* _sanitize_optional_text: the trimmed text, None when it is empty.
SanitizeOptionalText(value) ==
    IF value = None THEN None
    ELSE IF TextStrip(value[1]) = <<>> THEN None
    ELSE Some(TextStrip(value[1]))

\* MatchResult.to_dict / from_dict
MatchResultToDict(r) ==
    [home_team |-> r.home_team, away_team |-> r.away_team,
     home_score |-> r.home_score, away_score |-> r.away_score]
MatchResultFromDict(data) ==
    [home_team |-> data.home_team, away_team |-> data.away_team,
     home_score |-> data.home_score, away_score |-> data.away_score]

\* MatchdayResults.to_dict
MatchdayResultsToDict(r) ==
    [competition |-> r.competition, season |-> r.season, matchday |-> r.matchday,
     matches |-> [i \in 1..Len(r.matches) |-> MatchResultToDict(r.matches[i])]]

\* MatchdayResults.from_dict; `_safe_int(value) or 0` is the value itself
\* for an int.
MatchdayResultsFromDict(data) ==
    [competition |-> SanitizeOptionalText(data.competition),
     season |-> SanitizeOptionalText(data.season),
     matchday |-> data.matchday,
     matches |-> [i \in 1..Len(data.matches) |-> MatchResultFromDict(data.matches[i])]]

\* RealTajoKit.to_dict / from_dict
RealTajoKitToDict(kit) ==
    [shirt |-> kit.shirt, shorts |-> kit.shorts, socks |-> kit.socks,
     shirt_type |-> kit.shirt_type, shorts_type |-> kit.shorts_type,
     socks_type |-> kit.socks_type]
RealTajoKitFromDict(data) ==
    [shirt |-> data.shirt, shorts |-> data.shorts, socks |-> data.socks,
     shirt_type |-> data.shirt_type, shorts_type |-> data.shorts_type,
     socks_type |-> data.socks_type]

\* RealTajoTeamInfo.to_dict / from_dict
RealTajoTeamInfoToDict(info) ==
    [name |-> info.name, contact_name |-> info.contact_name,
     phone |-> info.phone, address |-> info.address,
     first_kit |-> RealTajoKitToDict(info.first_kit),
     second_kit |-> RealTajoKitToDict(info.second_kit)]
RealTajoTeamInfoFromDict(data) ==
    [name |-> data.name, contact_name |-> data.contact_name,
     phone |-> data.phone, address |-> data.address,
     first_kit |-> RealTajoKitFromDict(data.first_kit),
     second_kit |-> RealTajoKitFromDict(data.second_kit)]

\* RealTajoMatch(...); match_date is Some(date), or None when no date is set.
RealTajoMatch(stage, matchday, match_date, opponent, is_home) ==
    [stage |-> stage, matchday |-> matchday, match_date |-> match_date,
     opponent |-> opponent, is_home |-> is_home]

\* RealTajoMatch.to_dict: self.match_date.isoformat() raises AttributeError
\* when match_date is None.
RealTajoMatchToDict(m) ==
    IF m.match_date = None THEN Raised
    ELSE Ok([stage |-> m.stage, matchday |-> Some(m.matchday),
             date |-> Some(Isoformat(m.match_date[1])),
             opponent |-> m.opponent, is_home |-> m.is_home])

\* RealTajoMatch.from_dict
RealTajoMatchFromDict(data) ==
    LET raw_date == data.date
        parsed_date == IF raw_date # None THEN Strptime(raw_date[1]) ELSE None
        matchday == IF data.matchday # None THEN data.matchday[1] ELSE 0
    IN  RealTajoMatch(data.stage, matchday,
                      IF parsed_date # None THEN parsed_date ELSE Some(DateMin),
                      data.opponent, data.is_home)

\* RealTajoCalendar.to_dict
RealTajoCalendarToDict(c) ==
    LET dicts == [i \in 1..Len(c.matches) |-> RealTajoMatchToDict(c.matches[i])]
    IN  IF \E i \in 1..Len(dicts) : dicts[i] = Raised THEN Raised
        ELSE Ok([competition |-> c.competition, season |-> c.season,
                 matches |-> [i \in 1..Len(dicts) |-> dicts[i].value],
                 team_info |-> RealTajoTeamInfoToDict(c.team_info)])

\* RealTajoCalendar.from_dict
RealTajoCalendarFromDict(data) ==
    [competition |-> data.competition, season |-> data.season,
     matches |-> [i \in 1..Len(data.matches) |-> RealTajoMatchFromDict(data.matches[i])],
     team_info |-> RealTajoTeamInfoFromDict(data.team_info)]

\* TopScorerEntry.to_dict(position)
TopScorerEntryToDict(e, position) ==
    [position |-> position, player |-> e.player, team |-> e.team,
     group |-> e.group, matches_played |-> e.matches_played,
     goals |-> [total |-> e.goals_total, details |-> e.goals_details,
                penalties |-> e.penalty_goals],
     goals_per_match |-> e.goals_per_match, raw |-> e.raw_lines]

\* TopScorerEntry.from_dict
TopScorerEntryFromDict(data) ==
    [player |-> data.player, team |-> data.team, group |-> data.group,
     matches_played |-> data.matches_played, goals_total |-> data.goals.total,
     goals_details |-> data.goals.details, penalty_goals |-> data.goals.penalties,
     goals_per_match |-> data.goals_per_match, raw_lines |-> data.raw]

\* TopScorersTable.to_dict
TopScorersTableToDict(t) ==
    [metadata |-> [title |-> t.title, competition |-> t.competition,
                   category |-> t.category, season |-> t.season],
     rows |-> [i \in 1..Len(t.scorers) |-> TopScorerEntryToDict(t.scorers[i], i)]]

\* TopScorersTable.from_dict
TopScorersTableFromDict(data) ==
    [title |-> data.metadata.title, competition |-> data.metadata.competition,
     category |-> data.metadata.category, season |-> data.metadata.season,
     scorers |-> [i \in 1..Len(data.rows) |-> TopScorerEntryFromDict(data.rows[i])]]

\* x.to_dict() for a record x tagged with its type.
ToDict(x) ==
    CASE x.type = "Matchday" -> Ok(MatchdayToDict(x.value))
      [] x.type = "ClassificationTable" -> Ok(ClassificationTableToDict(x.value))
      [] x.type = "MatchdayResults" -> Ok(MatchdayResultsToDict(x.value))
      [] x.type = "RealTajoCalendar" -> RealTajoCalendarToDict(x.value)
      [] x.type = "TopScorersTable" -> Ok(TopScorersTableToDict(x.value))

\* cls.from_dict(data) for the class named by type.
FromDict(type, data) ==
    CASE type = "Matchday" -> MatchdayFromDict(data)
      [] type = "ClassificationTable" -> ClassificationTableFromDict(data)
      [] type = "MatchdayResults" -> MatchdayResultsFromDict(data)
      [] type = "RealTajoCalendar" -> RealTajoCalendarFromDict(data)
      [] type = "TopScorersTable" -> TopScorersTableFromDict(data)

\* The records the model constructs.  Text fields come trimmed, padded with
\* white space and empty; a calendar match comes with and without a date.
FixtureSet ==
    { MatchFixture(home, away.team, score.home, score.away, away.bye,
                   when.date, when.time) :
        home \in {<<"A">>, <<" ", "A">>},
        away \in {[team |-> None, bye |-> TRUE],
                  [team |-> Some(<<"B">>), bye |-> FALSE]},
        score \in {[home |-> None, away |-> None]},
        when \in {[date |-> None, time |-> None],
                  [date |-> Some(<<"2025-10-11">>), time |-> Some(<<"15:30">>)]} }
    \cup { MatchFixture(<<"A">>, Some(<<"B">>), Some(1), Some(0), FALSE, None, None) }

MatchdaySet ==
    { Matchday(number, fs) :
        number \in 1..MaxNumber, fs \in SeqsUpTo(FixtureSet, MaxItems) }

RowSet ==
    { [position |-> 1, team |-> <<"A">>, stats |-> stats, raw |-> <<"1", "A">>] :
        stats \in { [points |-> Some(3), played |-> Some(1), wins |-> Some(1),
                     draws |-> Some(0), losses |-> Some(0), goals_for |-> Some(2),
                     goals_against |-> Some(1), last_points |-> Some(3),
                     sanction_points |-> Some(0)],
                    [points |-> None, played |-> None, wins |-> None,
                     draws |-> None, losses |-> None, goals_for |-> None,
                     goals_against |-> None, last_points |-> None,
                     sanction_points |-> None] } }

LastMatchSet ==
    { [matchday |-> matchday, date |-> date,
       home_team |-> [name |-> <<"REAL", " ", "TAJO">>, score |-> 2],
       away_team |-> [name |-> name, score |-> 3]] :
        matchday \in {None, Some(5)},
        date \in {None} \cup {Some(d) : d \in Dates},
        name \in {<<>>, <<"B">>, <<"B", " ">>} }

ClassificationTableSet ==
    { [headers |-> headers, rows |-> rows, last_match |-> last_match] :
        headers \in {<<>>, << <<"Equipos">>, <<"Puntos">> >>},
        rows \in SeqsUpTo(RowSet, MaxItems),
        last_match \in {None} \cup {Some(lm) : lm \in LastMatchSet} }

MatchdayResultsSet ==
    { [competition |-> competition, season |-> season, matchday |-> matchday,
       matches |-> matches] :
        competition \in {None, Some(<<"Liga">>), Some(<<>>)},
        season \in {None, Some(<<"2025-2026">>)},
        matchday \in 0..1,
        matches \in SeqsUpTo({[home_team |-> <<"A">>, away_team |-> <<"B">>,
                               home_score |-> Some(1), away_score |-> Some(0)],
                              [home_team |-> <<"A">>, away_team |-> <<"B">>,
                               home_score |-> None, away_score |-> None]},
                             MaxItems) }

DefaultKit ==
    [shirt |-> None, shorts |-> None, socks |-> None, shirt_type |-> None,
     shorts_type |-> None, socks_type |-> None]

RealTajoCalendarSet ==
    { [competition |-> competition, season |-> Some(<<"2025-2026">>),
       matches |-> matches,
       team_info |-> [name |-> <<"REAL", " ", "TAJO">>, contact_name |-> contact,
                      phone |-> None, address |-> None,
                      first_kit |-> [DefaultKit EXCEPT !.shirt = Some(<<"ROJA">>)],
                      second_kit |-> DefaultKit]] :
        competition \in {None, Some(<<"Liga">>)},
        contact \in {None, Some(<<"JUAN">>)},
        matches \in SeqsUpTo({RealTajoMatch(<<"Primera", " ", "Vuelta">>, 1, date,
                                            <<"RIVAL">>, home) :
                                 date \in {None} \cup {Some(d) : d \in Dates},
                                 home \in BOOLEAN},
                             MaxItems) }

TopScorersTableSet ==
    { [title |-> title, competition |-> None, category |-> title, season |-> None,
       scorers |-> scorers] :
        title \in {None, Some(<<"Liga">>)},
        scorers \in SeqsUpTo({[player |-> <<"PEREZ,", " ", "JUAN">>, team |-> team,
                               group |-> None, matches_played |-> Some(4),
                               goals_total |-> goals.total,
                               goals_details |-> goals.details,
                               penalty_goals |-> goals.penalties,
                               goals_per_match |-> goals.ratio,
                               raw_lines |-> << <<"PEREZ,", " ", "JUAN">> >>] :
                                 team \in {None, Some(<<"A">>)},
                                 goals \in {[total |-> None, details |-> None,
                                             penalties |-> None, ratio |-> None],
                                            [total |-> Some(0), details |-> Some(<<"0">>),
                                             penalties |-> None, ratio |-> Some(<<0, 1>>)],
                                            [total |-> Some(2),
                                             details |-> Some(<<"2", " ", "(1", " ",
                                                                "de", " ", "penalti)">>),
                                             penalties |-> Some(1),
                                             ratio |-> Some(<<1, 2>>)]}},
                             MaxItems) }

Instances ==
    {[type |-> "Matchday", value |-> v] : v \in MatchdaySet}
    \cup {[type |-> "ClassificationTable", value |-> v] : v \in ClassificationTableSet}
    \cup {[type |-> "MatchdayResults", value |-> v] : v \in MatchdayResultsSet}
    \cup {[type |-> "RealTajoCalendar", value |-> v] : v \in RealTajoCalendarSet}
    \cup {[type |-> "TopScorersTable", value |-> v] : v \in TopScorersTableSet}

\* The dicts handed to RealTajoMatch.from_dict.
MatchPayloadSet ==
    { [stage |-> <<"Liga">>, matchday |-> matchday, date |-> date,
       opponent |-> <<"RIVAL", " ", "FC">>, is_home |-> home] :
        matchday \in {None, Some(5)},
        date \in {None, Some("2025-10-18"), Some("18-10-2025")},
        home \in BOOLEAN }

ModelInit ==
    /\ instance = None
    /\ serialized = NotYet
    /\ restored = NotYet
    /\ match_payload = None
    /\ match = NotYet
    /\ match_dict = NotYet

\* A record is constructed.
Construct(x) ==
    /\ instance = None
    /\ instance' = Some(x)
    /\ UNCHANGED <<serialized, restored, match_payload, match, match_dict,
                   notModelVars>>

\* x.to_dict()
Serialize ==
    /\ instance # None /\ serialized = NotYet
    /\ serialized' = ToDict(instance[1])
    /\ UNCHANGED <<instance, restored, match_payload, match, match_dict,
                   notModelVars>>

\* type(x).from_dict(...) on the dict x.to_dict() returned
Rehydrate ==
    /\ serialized.status = "ok" /\ restored = NotYet
    /\ restored' = Ok(FromDict(instance[1].type, serialized.value))
    /\ UNCHANGED <<instance, serialized, match_payload, match, match_dict,
                   notModelVars>>

\* RealTajoMatch.from_dict(payload)
MatchFromDict(payload) ==
    /\ match_payload = None
    /\ match_payload' = Some(payload)
    /\ match' = Ok(RealTajoMatchFromDict(payload))
    /\ UNCHANGED <<instance, serialized, restored, match_dict, notModelVars>>

\* to_dict() on the match from_dict returned
MatchToDict ==
    /\ match.status = "ok" /\ match_dict = NotYet
    /\ match_dict' = RealTajoMatchToDict(match.value)
    /\ UNCHANGED <<instance, serialized, restored, match_payload, match,
                   notModelVars>>

ModelNext ==
    \/ \E x \in Instances : Construct(x)
    \/ Serialize
    \/ Rehydrate
    \/ \E payload \in MatchPayloadSet : MatchFromDict(payload)
    \/ MatchToDict

(***************************************************************************)
(* Matchday repository: json_matchday_repository.py.                       *)
(* The file matchday_<number>.json is named by its number; its content is  *)
(* the dict json.dump wrote.                                               *)
(***************************************************************************)
\* The matchdays the model saves.
RepoMatchdaySet ==
    { Matchday(number, fs) :
        number \in 1..MaxNumber,
        fs \in {<<>>,
                <<MatchFixture(<<"A">>, Some(<<"B">>), Some(1), Some(0), FALSE,
                               None, None)>>} }

\* A repository call and what it returned (a bool or an Optional matchday,
\* wrapped in a sequence; <<>> for None).
Call(op, number, result) == [op |-> op, number |-> number, result |-> result]

RECURSIVE LowestOver(_, _)
LowestOver(numbers, lowest) ==
    IF numbers = {} THEN lowest
    ELSE LET number == CHOOSE n \in numbers : TRUE
         IN  LowestOver(numbers \ {number},
                        IF lowest = None \/ number < lowest[1]
                        THEN Some(number) ELSE lowest)

\* _resolve_highest_matchday_number with its comparison reversed.
ResolveLowestMatchdayNumber(fs) == LowestOver(DOMAIN fs, None)

RECURSIVE HighestOver(_, _)
\* The loop of _resolve_highest_matchday_number over the files not visited
\* yet (glob yields them in no particular order).
HighestOver(numbers, highest) ==
    IF numbers = {} THEN highest
    ELSE LET number == CHOOSE n \in numbers : TRUE
         IN  HighestOver(numbers \ {number},
                         IF highest = None \/ number > highest[1]
                         THEN Some(number) ELSE highest)

\* JsonMatchdayRepository._resolve_highest_matchday_number
ResolveHighestMatchdayNumber(fs) == HighestOver(DOMAIN fs, None)

\* JsonMatchdayRepository.get
Get(fs, number) ==
    IF number \notin DOMAIN fs THEN None
    ELSE Some(MatchdayFromDict(fs[number]))

\* JsonMatchdayRepository.get_last
GetLast(fs) ==
    LET highest == ResolveHighestMatchdayNumber(fs)
    IN  IF highest = None THEN None ELSE Get(fs, highest[1])

\* file_path.unlink() removing every matchday file instead of one.
UnlinkAll(fs, number) == <<>>

\* The directory after file_path.unlink()
Unlink(fs, number) == [n \in DOMAIN fs \ {number} |-> fs[n]]

RepoInit ==
    /\ files = <<>>
    /\ repo_call = Call("none", 0, <<>>)

\* JsonMatchdayRepository.save(matchday)
RepoSave(matchday) ==
    /\ files' = [n \in DOMAIN files \cup {matchday.number} |->
                    IF n = matchday.number THEN MatchdayToDict(matchday)
                    ELSE files[n]]
    /\ repo_call' = Call("save", matchday.number, <<>>)
    /\ UNCHANGED notRepoVars

\* JsonMatchdayRepository.get(number)
RepoGet(number) ==
    /\ repo_call' = Call("get", number, Get(files, number))
    /\ UNCHANGED <<files, notRepoVars>>

\* JsonMatchdayRepository.get_last()
RepoGetLast ==
    /\ repo_call' = Call("get_last", 0, GetLast(files))
    /\ UNCHANGED <<files, notRepoVars>>

\* JsonMatchdayRepository.delete(number)
RepoDelete(number) ==
    /\ IF number \notin DOMAIN files
       THEN /\ repo_call' = Call("delete", number, <<FALSE>>)
            /\ UNCHANGED files
       ELSE /\ files' = Unlink(files, number)
            /\ repo_call' = Call("delete", number, <<TRUE>>)
    /\ UNCHANGED notRepoVars

\* JsonMatchdayRepository.delete_last()
RepoDeleteLast ==
    /\ LET highest == ResolveHighestMatchdayNumber(files)
       IN  IF highest = None
           THEN /\ repo_call' = Call("delete_last", 0, <<FALSE>>)
                /\ UNCHANGED files
           ELSE /\ files' = Unlink(files, highest[1])
                /\ repo_call' = Call("delete_last", 0, <<TRUE>>)
    /\ UNCHANGED notRepoVars

\* The directory after save(matchday)
Saved(fs, matchday) ==
    [n \in DOMAIN fs \cup {matchday.number} |->
        IF n = matchday.number THEN MatchdayToDict(matchday) ELSE fs[n]]

\* UpdateLatestMatchdayUseCase.execute without its two checks.
ExecuteUpdateUnchecked(fs, matchday) ==
    [files |-> Saved(fs, matchday), raised |-> "", returned |-> Some(matchday)]

\* UpdateLatestMatchdayUseCase.execute: the directory it leaves, the
\* exception it raises ("" for none) and the matchday it returns.
ExecuteUpdate(fs, matchday) ==
    LET latest == GetLast(fs)
    IN  IF latest = None
        THEN [files |-> fs, raised |-> "LatestMatchdayNotFoundError",
              returned |-> None]
        ELSE IF latest[1].number # matchday.number
        THEN [files |-> fs, raised |-> "LatestMatchdayNumberMismatchError",
              returned |-> None]
        ELSE [files |-> Saved(fs, matchday), raised |-> "",
              returned |-> Some(matchday)]

\* modify_latest_matchday: the HTTP status for what execute did, followed by
\* the exception name or the updated matchday.
ModifyResponse(executed) ==
    IF executed.raised = "LatestMatchdayNotFoundError"
    THEN <<404, executed.raised>>
    ELSE IF executed.raised = "LatestMatchdayNumberMismatchError"
    THEN <<409, executed.raised>>
    ELSE <<200, executed.returned[1]>>

\* PUT /matchdays/last/modify with the payload of matchday
RepoModifyLatest(matchday) ==
    /\ LET executed == ExecuteUpdate(files, MatchdayFromDict(MatchdayToDict(matchday)))
       IN  /\ files' = executed.files
           /\ repo_call' = Call("modify_latest", matchday.number,
                                ModifyResponse(executed))
    /\ UNCHANGED notRepoVars

RepoNext ==
    \/ \E matchday \in RepoMatchdaySet : RepoSave(matchday)
    \/ \E number \in 1..MaxNumber : RepoGet(number)
    \/ RepoGetLast
    \/ \E number \in 1..MaxNumber : RepoDelete(number)
    \/ RepoDeleteLast
    \/ \E matchday \in RepoMatchdaySet : RepoModifyLatest(matchday)

(***************************************************************************)
(* Specifications.                                                         *)
(***************************************************************************)
StatsNext ==
    \/ \E d \in StatDigits : StatsGlueDigit(d)
    \/ \E d \in StatDigits : StatsNewToken(d)
    \/ StatsDecode

----------------------------------------------------------------------------
\* Team-scoped projection: Matchday.to_dict(team_name).  A team name is the
\* sequence of its characters; "A_acute" and "a_acute" stand for the accented
\* letters.

MaxStoredFixtures == 2

\* str.casefold / re.IGNORECASE on one character
LowerChar(c) ==
    CASE c = "R" -> "r" [] c = "A" -> "a" [] c = "A_acute" -> "a_acute"
      [] c = "X" -> "x" [] c = "Y" -> "y" [] c = "Z" -> "z" [] c = "C" -> "c"
      [] OTHER -> c

\* str.casefold()
CasefoldText(t) == [i \in 1..Len(t) |-> LowerChar(t[i])]

\* str.isalpha() on one character
IsAlphaChar(c) == c \notin {" ", "-"}

\* _TEAM_NAME_SEPARATOR_CHARS (the ones the model's names use)
TeamNameSeparatorChars == {" ", "-"}

RECURSIVE SplitJoin(_)
\* " ".join(text.split())
SplitJoin(t) ==
    LET s == TextLStrip(t)
    IN  IF s = <<>> THEN <<>>
        ELSE LET stop == IF \E i \in 1..Len(s) : s[i] = " "
                         THEN CHOOSE i \in 1..Len(s) :
                                  s[i] = " " /\ \A k \in 1..(i - 1) : s[k] # " "
                         ELSE Len(s) + 1
                 rest == SplitJoin(SubSeq(s, stop, Len(s)))
             IN  SubSeq(s, 1, stop - 1) \o
                 (IF rest = <<>> THEN <<>> ELSE <<" ">> \o rest)

\* _normalize_team_name (name is Optional)
NormalizeTeamName(name) ==
    IF name = None THEN <<>> ELSE SplitJoin(CasefoldText(TextStrip(name[1])))

\* needle in hay
Contains(needle, hay) ==
    \E i \in 0..(Len(hay) - Len(needle)) : SubSeq(hay, i + 1, i + Len(needle)) = needle

\* pattern.search(name) with re.IGNORECASE: Some(0-based start of the first
\* match) or None
SearchIgnoreCase(team, name) ==
    LET hits == { i \in 0..(Len(name) - Len(team)) :
                    CasefoldText(SubSeq(name, i + 1, i + Len(team))) = CasefoldText(team) }
    IN  IF hits = {} THEN None
        ELSE Some(CHOOSE i \in hits : \A k \in hits : i <= k)

RECURSIVE StripSeparators(_)
\* segment.strip(_TEAM_NAME_SEPARATOR_CHARS)
StripSeparators(t) ==
    IF t # <<>> /\ Head(t) \in TeamNameSeparatorChars THEN StripSeparators(Tail(t))
    ELSE IF t # <<>> /\ t[Len(t)] \in TeamNameSeparatorChars
    THEN StripSeparators(SubSeq(t, 1, Len(t) - 1))
    ELSE t

\* _is_meaningful_opponent
IsMeaningfulOpponent(segment) ==
    IF segment = <<>> THEN FALSE
    ELSE LET normalized == NormalizeTeamName(Some(segment))
         IN  IF normalized = <<>> THEN FALSE
             ELSE IF \E i \in 1..Len(normalized) : normalized[i] = " " THEN TRUE
             ELSE Cardinality({ i \in 1..Len(normalized) : IsAlphaChar(normalized[i]) }) >= 3

\* _extract_opponent_segment (name is Optional; the result is Optional)
ExtractOpponentSegment(name, team) ==
    IF name = None \/ name = Some(<<>>) THEN None
    ELSE LET found == SearchIgnoreCase(team, name[1])
         IN  IF found = None THEN None
             ELSE LET before == StripSeparators(SubSeq(name[1], 1, found[1]))
                      after == StripSeparators(SubSeq(name[1], found[1] + Len(team) + 1,
                                                      Len(name[1])))
                      candidates == SelectSeq(<<before, after>>, IsMeaningfulOpponent)
                  IN  IF Len(candidates) # 1 THEN None ELSE Some(candidates[1])

\* MatchFixture._serialize_for_team: the labels homeTeam (text) and awayTeam
\* (Optional text)
SerializeForTeam(f, team) ==
    LET normalized_target == NormalizeTeamName(Some(team))
        home_contains == Contains(normalized_target, NormalizeTeamName(Some(f.home_team)))
        away_contains == Contains(normalized_target, NormalizeTeamName(f.away_team))
        stored == [homeTeam |-> f.home_team, awayTeam |-> f.away_team]
    IN  IF home_contains /\ ~away_contains
        THEN LET opponent == ExtractOpponentSegment(Some(f.home_team), team)
             IN  IF opponent # None /\ opponent # Some(<<>>)
                 THEN [homeTeam |-> opponent[1], awayTeam |-> Some(team)]
                 ELSE stored
        ELSE IF away_contains /\ ~home_contains
        THEN LET opponent == ExtractOpponentSegment(f.away_team, team)
             IN  [homeTeam |-> IF opponent # None /\ opponent # Some(<<>>)
                               THEN opponent[1] ELSE f.home_team,
                  awayTeam |-> Some(team)]
        ELSE IF home_contains /\ away_contains
        THEN [homeTeam |-> team, awayTeam |-> Some(team)]
        ELSE stored

\* MatchFixture.to_dict(team_name) (team is Optional)
MatchFixtureToDictFor(f, team) ==
    LET labels == IF team # None /\ team # Some(<<>>) /\ ~f.is_bye
                  THEN SerializeForTeam(f, team[1])
                  ELSE [homeTeam |-> f.home_team, awayTeam |-> f.away_team]
    IN  [homeTeam |-> labels.homeTeam, awayTeam |-> labels.awayTeam,
         homeScore |-> f.home_score, awayScore |-> f.away_score,
         isBye |-> f.is_bye, date |-> f.date, time |-> f.time]

\* involves_team testing the home side only.
InvolvesTeamHomeOnly(f, team) ==
    LET normalized_target == NormalizeTeamName(Some(team))
    IN  /\ normalized_target # <<>>
        /\ Contains(normalized_target, NormalizeTeamName(Some(f.home_team)))

\* MatchFixture.involves_team
InvolvesTeam(f, team) ==
    LET normalized_target == NormalizeTeamName(Some(team))
        home_name == NormalizeTeamName(Some(f.home_team))
        away_name == NormalizeTeamName(f.away_team)
    IN  IF normalized_target = <<>> THEN FALSE
        ELSE IF f.is_bye THEN Contains(normalized_target, home_name)
        ELSE \/ Contains(normalized_target, home_name)
             \/ (away_name # <<>> /\ Contains(normalized_target, away_name))

\* Matchday.fixtures_for_team
FixturesForTeam(fs, team) ==
    IF NormalizeTeamName(Some(team)) = <<>> THEN <<>>
    ELSE LET Involved(f) == InvolvesTeam(f, team) IN SelectSeq(fs, Involved)

\* Matchday.to_dict(team_name)["fixtures"] (team is Optional)
MatchdayFixturesFor(fs, team) ==
    LET selected == IF team = None THEN fs ELSE FixturesForTeam(fs, team[1])
    IN  [i \in 1..Len(selected) |-> MatchFixtureToDictFor(selected[i], team)]

\* The team names of the stored fixtures: the tracked team "R A" alone, in
\* lower case, accented and with a doubled space, an opponent alone, and
\* strings that concatenate the tracked team with an opponent or a suffix.
TeamNames ==
    { <<"R", " ", "A">>,
      <<"r", " ", "a">>,
      <<"R", " ", "A_acute">>,
      <<"R", " ", " ", "A">>,
      <<"X", "Y", "Z">>,
      <<"X", "Y", "Z", " ", "R", " ", "A">>,
      <<"R", " ", "A", "-", "X", "Y", "Z">>,
      <<"R", " ", "A", " ", "C">>,
      <<"X", "Y", "Z", " ", "R", " ", "A", " ", "X", "Y", "Z">> }

\* The fixtures a matchday may store: pairings, with and without a score, and
\* byes.
StoredFixtureSet ==
    { MatchFixture(home, Some(away), None, None, FALSE, None, None) :
        home \in TeamNames, away \in TeamNames }
    \cup { MatchFixture(home, Some(away), Some(1), Some(0), FALSE, None, None) :
        home \in TeamNames, away \in TeamNames }
    \cup { MatchFixture(home, None, None, None, TRUE, None, None) : home \in TeamNames }

\* The team names a caller asks for.
RequestedTeams == { <<"R", " ", "A">>, <<"r", " ", "a">>, <<>> }

TeamInit ==
    /\ stored_fixtures = <<>>
    /\ requested_team = None
    /\ team_payload = None

\* One more fixture stored in the matchday, before it is served.
TeamStoreFixture(f) ==
    /\ team_payload = None
    /\ Len(stored_fixtures) < MaxStoredFixtures
    /\ stored_fixtures' = Append(stored_fixtures, f)
    /\ UNCHANGED <<requested_team, team_payload, notTeamVars>>

\* matchday.to_dict(team_name=team)
TeamToDict(team) ==
    /\ team_payload = None
    /\ requested_team' = Some(team)
    /\ team_payload' = Some(MatchdayFixturesFor(stored_fixtures, Some(team)))
    /\ UNCHANGED <<stored_fixtures, notTeamVars>>

TeamNext ==
    \/ \E f \in StoredFixtureSet : TeamStoreFixture(f)
    \/ \E team \in RequestedTeams : TeamToDict(team)

----------------------------------------------------------------------------
\* Calendar parsing: RealTajoCalendarPdfParser.parse.  A line is the sequence
\* of its space-separated tokens; "(d1)" and "(d2)" stand for parenthesised
\* dates such as "(11-10-2025)", "(1)" for a team code such as "(1048)" and
\* "1.-", "2.-" for the ordinals of the participants list.

MaxCalendarLines == 4

ParenDateTokens == {"(d1)", "(d2)"}
NumberTokens == {"1", "2", "10"}
OrdinalTokens == {"1.-", "2.-"}
CodeTokens == {"(1)"}

\* The tracked team's default name, "REAL TAJO"
RealTajo == <<"REAL", "TAJO">>

\* _normalize_for_matching on one token (upper case, accents dropped)
NormalizeForMatching(token) ==
    CASE token = "Descansa" -> "DESCANSA"
      [] token = "Jornada" -> "JORNADA"
      [] token = "Primera" -> "PRIMERA"
      [] token = "Segunda" -> "SEGUNDA"
      [] token = "Vuelta" -> "VUELTA"
      [] token = "Contacto:" -> "CONTACTO:"
      [] token = "Equipos" -> "EQUIPOS"
      [] token = "Participantes" -> "PARTICIPANTES"
      [] OTHER -> token

\* _normalize_for_matching on a text
NormalizeTextForMatching(text) == [i \in 1..Len(text) |-> NormalizeForMatching(text[i])]

\* Some(first position where the tokens of part occur in text) or None
FindTokens(part, text) ==
    LET hits == { i \in 1..(Len(text) - Len(part) + 1) :
                    SubSeq(text, i, i + Len(part) - 1) = part }
    IN  IF hits = {} THEN None ELSE Some(CHOOSE i \in hits : \A k \in hits : i <= k)

\* "REAL TAJO" in text.upper()
MentionsRealTajo(text) == FindTokens(RealTajo, NormalizeTextForMatching(text)) # None

RECURSIVE JoinLines(_)
\* " ".join(lines)
JoinLines(ls) == IF ls = <<>> THEN <<>> ELSE Head(ls) \o JoinLines(Tail(ls))

\* _looks_like_complete_entry
LooksLikeCompleteEntry(line) == line # <<>> /\ line[Len(line)] \in CodeTokens

\* _append_team_name: team_names with the name made of parts appended
AppendTeamName(names, parts) ==
    LET raw_name == JoinLines(parts)
        normalized == IF LooksLikeCompleteEntry(raw_name)
                      THEN SubSeq(raw_name, 1, Len(raw_name) - 1) ELSE raw_name
    IN  IF normalized # <<>> THEN Append(names, normalized) ELSE names

RECURSIVE TeamNamesLoop(_, _, _, _)
\* The loop of _extract_team_names over the lines not read yet; the result is
\* team_names after the flush that follows the loop.
TeamNamesLoop(ls, capture, names, current_entry) ==
    LET Flushed == IF current_entry # <<>> THEN AppendTeamName(names, current_entry)
                   ELSE names
    IN  IF ls = <<>> THEN Flushed
        ELSE LET line == Head(ls)
             IN  IF ~capture
                 THEN TeamNamesLoop(Tail(ls),
                                    /\ Len(line) >= 2
                                    /\ NormalizeTextForMatching(SubSeq(line, 1, 2))
                                         = <<"EQUIPOS", "PARTICIPANTES">>,
                                    names, current_entry)
                 ELSE IF line # <<>> /\ line[1] = "DELEGACION" THEN Flushed
                 ELSE IF Len(line) >= 2 /\ line[1] \in OrdinalTokens
                 THEN LET entry == <<Tail(line)>>
                      IN  IF LooksLikeCompleteEntry(Tail(line))
                          THEN TeamNamesLoop(Tail(ls), capture,
                                             AppendTeamName(Flushed, entry), <<>>)
                          ELSE TeamNamesLoop(Tail(ls), capture, Flushed, entry)
                 ELSE IF current_entry # <<>>
                 THEN LET entry == Append(current_entry, line)
                      IN  IF LooksLikeCompleteEntry(line)
                          THEN TeamNamesLoop(Tail(ls), capture,
                                             AppendTeamName(names, entry), <<>>)
                          ELSE TeamNamesLoop(Tail(ls), capture, names, entry)
                 ELSE TeamNamesLoop(Tail(ls), capture, names, current_entry)

\* _extract_team_names
ExtractTeamNames(ls) ==
    LET names == TeamNamesLoop(ls, FALSE, <<>>, <<>>)
    IN  IF \E i \in 1..Len(names) : names[i] = RealTajo THEN names
        ELSE Append(names, RealTajo)

RECURSIVE NameLength(_)
\* len(name) in characters
NameLength(name) ==
    IF name = <<>> THEN 0
    ELSE Len(Head(name)) + (IF Len(name) > 1 THEN 1 ELSE 0) + NameLength(Tail(name))

RECURSIVE InsertByLength(_, _)
InsertByLength(name, sorted) ==
    IF sorted = <<>> THEN <<name>>
    ELSE IF NameLength(Head(sorted)) < NameLength(name) THEN <<name>> \o sorted
    ELSE <<Head(sorted)>> \o InsertByLength(name, Tail(sorted))

RECURSIVE SortedNames(_)
\* sorted(team_names, key=len, reverse=True)
SortedNames(names) ==
    IF names = <<>> THEN <<>>
    ELSE InsertByLength(names[Len(names)],
                        SortedNames(SubSeq(names, 1, Len(names) - 1)))

\* real_tajo_name: the first listed team that mentions REAL TAJO
RealTajoName(names) ==
    LET mentioning == SelectSeq(names, MentionsRealTajo)
    IN  IF mentioning = <<>> THEN RealTajo ELSE Head(mentioning)

\* _match_prefix(text[start:], team_name) is not None (start is 1-based)
MatchesPrefixAt(text, start, name) ==
    /\ name # <<>>
    /\ start + Len(name) - 1 <= Len(text)
    /\ NormalizeTextForMatching(SubSeq(text, start, start + Len(name) - 1))
         = NormalizeTextForMatching(name)

\* _collect_team_occurrences: for every start the first name that matches,
\* as [start, stop, name] over token positions, in order of start
CollectTeamOccurrences(text, search_names) ==
    LET OccurrenceAt(start) ==
            LET found == { k \in 1..Len(search_names) :
                             MatchesPrefixAt(text, start, search_names[k]) }
            IN  IF found = {} THEN None
                ELSE LET name == search_names[Min(found)]
                     IN  Some([start |-> start, stop |-> start + Len(name) - 1,
                               name |-> name])
        Found(o) == o # None
        located == SelectSeq([start \in 1..Len(text) |-> OccurrenceAt(start)], Found)
    IN  [k \in 1..Len(located) |-> located[k][1]]

\* character.isalnum() for some character of the token
HasAlnum(token) == token # "-"

\* _find_adjacent_team_left (Optional occurrence)
FindAdjacentTeamLeft(occurrences, text, dash_index) ==
    LET adjacent == { k \in 1..Len(occurrences) :
                        /\ occurrences[k].stop < dash_index
                        /\ \A j \in (occurrences[k].stop + 1)..(dash_index - 1) :
                               ~HasAlnum(text[j]) }
    IN  IF adjacent = {} THEN None
        ELSE Some(occurrences[CHOOSE k \in adjacent : \A j \in adjacent : j <= k])

\* _find_adjacent_team_right (Optional occurrence)
FindAdjacentTeamRight(occurrences, text, dash_index) ==
    LET adjacent == { k \in 1..Len(occurrences) :
                        /\ occurrences[k].start > dash_index
                        /\ \A j \in (dash_index + 1)..(occurrences[k].start - 1) :
                               ~HasAlnum(text[j]) }
    IN  IF adjacent = {} THEN None ELSE Some(occurrences[Min(adjacent)])

\* _ParsedMatchResult (home_team, away_team; the schedule details of the
\* pairing are not modelled)
ParsedMatchResult(home, away) == [home_team |-> home, away_team |-> away]

\* The positions of the separators of text, in order
DashPositions(text) ==
    LET DashAt(i) == text[i] = "-"
    IN  SelectSeq([i \in 1..Len(text) |-> i], DashAt)

RECURSIVE StripSeparatorTokens(_)
\* cleaned.strip("-...")
StripSeparatorTokens(t) ==
    IF t # <<>> /\ Head(t) = "-" THEN StripSeparatorTokens(Tail(t))
    ELSE IF t # <<>> /\ t[Len(t)] = "-"
    THEN StripSeparatorTokens(SubSeq(t, 1, Len(t) - 1))
    ELSE t

\* date_pattern.search(line): Some(position of the first parenthesised date)
SearchDate(line) ==
    LET hits == { i \in 1..Len(line) : line[i] \in ParenDateTokens }
    IN  IF hits = {} THEN None ELSE Some(Min(hits))

\* text cut before position at, when there is one
CutAt(text, at) == IF at = None THEN text ELSE SubSeq(text, 1, at[1] - 1)

\* re.sub(r"\(\d{2}-\d{2}-\d{4}\).*", "", cleaned)
CutDate(text) == CutAt(text, SearchDate(text))

\* Some(first position of "Jornada <number>", whatever the case) or None
SearchJornadaAnyCase(text) ==
    LET hits == { i \in 1..(Len(text) - 1) :
                    /\ NormalizeForMatching(text[i]) = "JORNADA"
                    /\ text[i + 1] \in NumberTokens }
    IN  IF hits = {} THEN None ELSE Some(Min(hits))

\* re.sub(r"Jornada\s+\d+.*", "", cleaned, flags=re.IGNORECASE)
CutJornada(text) == CutAt(text, SearchJornadaAnyCase(text))

\* Some(first position of a stage label, whatever the case) or None
SearchStage(text) ==
    LET hits == { i \in 1..(Len(text) - 1) :
                    /\ NormalizeForMatching(text[i]) \in {"PRIMERA", "SEGUNDA"}
                    /\ NormalizeForMatching(text[i + 1]) = "VUELTA" }
    IN  IF hits = {} THEN None ELSE Some(Min(hits))

\* re.sub(r"(Primera|Segunda)\s+Vuelta.*", "", cleaned, flags=re.IGNORECASE)
CutStage(text) == CutAt(text, SearchStage(text))

\* cleaned.split("Descansa")[-1]
AfterLastDescansa(text) ==
    LET rests == { i \in 1..Len(text) : text[i] = "Descansa" }
    IN  IF rests = {} THEN text
        ELSE SubSeq(text, (CHOOSE i \in rests : \A k \in rests : k <= i) + 1, Len(text))

\* _sanitize_team_segment
SanitizeTeamSegment(segment) ==
    AfterLastDescansa(CutStage(CutJornada(CutDate(StripSeparatorTokens(segment)))))

\* The pairing for the two sides found around a separator, or None when the
\* separator does not pair the tracked team with an opponent
PairingOf(left_team, right_team, real_tajo_name) ==
    LET normalized_real == NormalizeTextForMatching(real_tajo_name)
        normalized_left == NormalizeTextForMatching(left_team)
        normalized_right == NormalizeTextForMatching(right_team)
        descansa == <<"DESCANSA">>
    IN  IF normalized_real \notin {normalized_left, normalized_right} THEN None
        ELSE IF {normalized_left, normalized_right} = {normalized_real, descansa}
        THEN Some(ParsedMatchResult(
                 IF normalized_left = normalized_real THEN real_tajo_name
                 ELSE <<"Descansa">>,
                 IF normalized_right = normalized_real THEN real_tajo_name
                 ELSE <<"Descansa">>))
        ELSE IF descansa \in {normalized_left, normalized_right} THEN None
        ELSE Some(ParsedMatchResult(
                 IF normalized_left = normalized_real THEN real_tajo_name
                 ELSE left_team,
                 IF normalized_right = normalized_real THEN real_tajo_name
                 ELSE right_team))

RECURSIVE UnknownTeamLoop(_, _, _)
\* The loop of _parse_real_tajo_match_with_unknown_team over the separators
\* not tried yet
UnknownTeamLoop(text, dashes, real_tajo_name) ==
    IF dashes = <<>> THEN None
    ELSE LET index == Head(dashes)
             home_candidate == SanitizeTeamSegment(SubSeq(text, 1, index - 1))
             away_candidate == SanitizeTeamSegment(SubSeq(text, index + 1, Len(text)))
             pairing == PairingOf(home_candidate, away_candidate, real_tajo_name)
         IN  IF home_candidate = <<>> \/ away_candidate = <<>> \/ pairing = None
             THEN UnknownTeamLoop(text, Tail(dashes), real_tajo_name)
             ELSE pairing

\* _parse_real_tajo_match_with_unknown_team
ParseRealTajoMatchWithUnknownTeam(text, real_tajo_name) ==
    UnknownTeamLoop(text, DashPositions(text), real_tajo_name)

RECURSIVE KnownTeamLoop(_, _, _, _)
\* The loop of _parse_real_tajo_match_from_text over the separators not tried
\* yet
KnownTeamLoop(text, occurrences, dashes, real_tajo_name) ==
    IF dashes = <<>> THEN None
    ELSE LET left == FindAdjacentTeamLeft(occurrences, text, Head(dashes))
             right == FindAdjacentTeamRight(occurrences, text, Head(dashes))
             pairing == IF left = None \/ right = None THEN None
                        ELSE PairingOf(left[1].name, right[1].name, real_tajo_name)
         IN  IF pairing = None
             THEN KnownTeamLoop(text, occurrences, Tail(dashes), real_tajo_name)
             ELSE pairing

\* _parse_real_tajo_match_from_text (Optional pairing)
ParseRealTajoMatchFromText(text, names, real_tajo_name) ==
    IF ~MentionsRealTajo(text) THEN None
    ELSE LET search_names ==
                 IF \E k \in 1..Len(names) :
                        NormalizeTextForMatching(names[k]) = <<"DESCANSA">>
                 THEN names ELSE Append(names, <<"DESCANSA">>)
             occurrences == CollectTeamOccurrences(text, search_names)
         IN  IF occurrences = <<>> THEN None
             ELSE LET known == KnownTeamLoop(text, occurrences, DashPositions(text),
                                             real_tajo_name)
                  IN  IF known # None THEN known
                      ELSE ParseRealTajoMatchWithUnknownTeam(text, real_tajo_name)

RECURSIVE FirstParsed(_, _, _)
FirstParsed(candidates, names, real_tajo_name) ==
    IF candidates = <<>> THEN None
    ELSE LET parsed == IF Head(candidates) = <<>> THEN None
                       ELSE ParseRealTajoMatchFromText(Head(candidates), names,
                                                       real_tajo_name)
         IN  IF parsed # None THEN parsed
             ELSE FirstParsed(Tail(candidates), names, real_tajo_name)

\* The candidate texts built around line index of the round's buffer
Variations(ls, index) ==
    (IF index > 1 /\ index < Len(ls)
     THEN <<ls[index - 1] \o ls[index] \o ls[index + 1]>> ELSE <<>>)
    \o (IF index > 1 THEN <<ls[index - 1] \o ls[index]>> ELSE <<>>)
    \o (IF index < Len(ls) THEN <<ls[index] \o ls[index + 1]>> ELSE <<>>)
    \o <<ls[index]>>

RECURSIVE CandidatesFrom(_, _)
CandidatesFrom(ls, index) ==
    IF index > Len(ls) THEN <<JoinLines(ls)>>
    ELSE (IF MentionsRealTajo(ls[index]) THEN Variations(ls, index) ELSE <<>>)
         \o CandidatesFrom(ls, index + 1)

\* _parse_real_tajo_match_from_lines (Optional pairing)
ParseRealTajoMatchFromLines(ls, names, real_tajo_name) ==
    IF ls = <<>> THEN None
    ELSE FirstParsed(CandidatesFrom(ls, 1), names, real_tajo_name)

\* The fields of the RealTajoMatch dataclass
RealTajoMatchFields == {"stage", "matchday", "match_date", "opponent", "is_home"}

\* RealTajoMatch(**kwargs): a keyword the dataclass does not declare raises
\* TypeError
NewRealTajoMatch(kwargs) ==
    IF DOMAIN kwargs \subseteq RealTajoMatchFields THEN Ok(kwargs) ELSE Raised

\* int(group(1)) of a round marker
NumberValue(token) ==
    CASE token = "1" -> 1 [] token = "2" -> 2 [] token = "10" -> 10

\* _resolve_stage_label (matchday is not None where it is called)
ResolveStageLabel(explicit_stage, matchday) ==
    IF explicit_stage # None THEN explicit_stage[1]
    ELSE IF matchday <= 9 THEN "Primera Vuelta" ELSE "Segunda Vuelta"

\* The locals of _extract_real_tajo_matches; raised is TRUE once an exception
\* has left the function
ScanLocals(ms, stage, matchday, date, pending, ls, parsed, raised) ==
    [matches |-> ms, current_stage |-> stage, current_matchday |-> matchday,
     current_date |-> date, pending_matchday |-> pending, jornada_lines |-> ls,
     parsed_match |-> parsed, raised |-> raised]

\* finalize_current_jornada once the round's pairing parsed is known:
\* the match is built and appended
AppendParsedMatch(st, parsed, real_tajo_name) ==
    IF parsed = None
    THEN [st EXCEPT !.jornada_lines = <<>>, !.parsed_match = None]
    ELSE LET built == NewRealTajoMatch(
                 [stage |-> ResolveStageLabel(st.current_stage, st.current_matchday[1]),
                  matchday |-> st.current_matchday[1],
                  match_date |-> st.current_date[1],
                  opponent |-> IF parsed[1].home_team = real_tajo_name
                               THEN parsed[1].away_team
                               ELSE parsed[1].home_team,
                  is_home |-> parsed[1].home_team = real_tajo_name,
                  kickoff_time |-> None,
                  field |-> None])
         IN  IF built.status = "ok"
             THEN [st EXCEPT !.jornada_lines = <<>>, !.parsed_match = parsed,
                             !.matches = Append(@, built.value)]
             ELSE [st EXCEPT !.jornada_lines = <<>>, !.parsed_match = parsed,
                             !.raised = TRUE]

\* finalize_current_jornada
FinalizeCurrentJornada(st, names) ==
    IF st.current_matchday = None \/ st.current_date = None \/ st.jornada_lines = <<>>
    THEN [st EXCEPT !.jornada_lines = <<>>]
    ELSE AppendParsedMatch(st,
                           ParseRealTajoMatchFromLines(st.jornada_lines,
                                                       SortedNames(names),
                                                       RealTajoName(names)),
                           RealTajoName(names))

\* _is_stage_line: Some(stage label) or None
StageOfLine(line) ==
    LET folded == NormalizeTextForMatching(line)
    IN  IF FindTokens(<<"PRIMERA", "VUELTA">>, folded) # None
        THEN Some("Primera Vuelta")
        ELSE IF FindTokens(<<"SEGUNDA", "VUELTA">>, folded) # None
        THEN Some("Segunda Vuelta")
        ELSE None

\* jornada_pattern.search(line): Some(position of "Jornada") when a number and
\* a parenthesised date follow it
SearchJornada(line) ==
    LET hits == { i \in 1..(Len(line) - 2) :
                    /\ line[i] = "Jornada"
                    /\ line[i + 1] \in NumberTokens
                    /\ line[i + 2] \in ParenDateTokens }
    IN  IF hits = {} THEN None ELSE Some(Min(hits))

\* jornada_without_date_pattern.search(line): Some(position of "Jornada") when
\* a number follows it and no parenthesis follows the number
SearchJornadaWithoutDate(line) ==
    LET hits == { i \in 1..(Len(line) - 1) :
                    /\ line[i] = "Jornada"
                    /\ line[i + 1] \in NumberTokens
                    /\ (i + 2 <= Len(line) =>
                            line[i + 2] \notin ParenDateTokens \cup CodeTokens) }
    IN  IF hits = {} THEN None ELSE Some(Min(hits))

\* <<text>> when text is not empty, else no line
NonEmpty(text) == IF text = <<>> THEN <<>> ELSE <<text>>

\* The stage branch of the loop body: a stage line closes the round and
\* resets it
StageStep(st, done, stage) ==
    IF stage = None THEN st
    ELSE IF done.raised THEN done
    ELSE [done EXCEPT !.current_stage = stage,
                      !.current_matchday = None,
                      !.current_date = None,
                      !.pending_matchday = None]

\* A round marker opens round number, dated or not, with the rest of its line
OpenRound(done, number, date, rest) ==
    IF done.raised THEN done
    ELSE [done EXCEPT !.current_matchday = Some(NumberValue(number)),
                      !.current_date = date,
                      !.pending_matchday =
                          IF date = None THEN Some(NumberValue(number)) ELSE None,
                      !.jornada_lines = NonEmpty(rest)]

\* The loop body after the round-marker branches
BufferLine(staged, line, date_match) ==
    IF staged.pending_matchday # None /\ staged.current_date = None
       /\ date_match # None
    THEN [staged EXCEPT
            !.current_date = Some(line[date_match[1]]),
            !.pending_matchday = None,
            !.jornada_lines = @ \o NonEmpty(SubSeq(line, 1, date_match[1] - 1))
                                \o NonEmpty(SubSeq(line, date_match[1] + 1, Len(line)))]
    ELSE IF staged.current_matchday = None \/ staged.current_date = None
            \/ line = <<>>
    THEN staged
    ELSE IF line[1] = "DELEGACION"
            \/ (Len(line) >= 3 /\ SubSeq(line, 1, 3) = <<"Calendario", "de", "Competiciones">>)
    THEN staged
    ELSE [staged EXCEPT !.jornada_lines = Append(@, line)]

\* The loop body after the stage branch
MarkerStep(staged, line, names, jornada_match, jornada_without_date_match) ==
    IF staged.raised THEN staged
    ELSE IF jornada_match # None
    THEN OpenRound(FinalizeCurrentJornada(staged, names),
                   line[jornada_match[1] + 1],
                   Some(line[jornada_match[1] + 2]),
                   SubSeq(line, jornada_match[1] + 3, Len(line)))
    ELSE IF jornada_without_date_match # None
    THEN OpenRound(FinalizeCurrentJornada(staged, names),
                   line[jornada_without_date_match[1] + 1],
                   None,
                   SubSeq(line, jornada_without_date_match[1] + 2, Len(line)))
    ELSE BufferLine(staged, line, SearchDate(line))

\* One iteration of the loop "for line in lines" of
\* _extract_real_tajo_matches
ScanLine(st, line, names) ==
    MarkerStep(StageStep(st,
                         IF StageOfLine(line) = None THEN st
                         ELSE FinalizeCurrentJornada(st, names),
                         StageOfLine(line)),
               line, names, SearchJornada(line), SearchJornadaWithoutDate(line))

RECURSIVE ScanLines(_, _, _)
\* The loop over several lines
ScanLines(st, ls, names) ==
    IF ls = <<>> \/ st.raised THEN st
    ELSE ScanLines(ScanLine(st, Head(ls), names), Tail(ls), names)

\* RealTajoTeamInfo(name="REAL TAJO", ...)
TeamInfo(contact_name, phone, address) ==
    [name |-> RealTajo, contact_name |-> contact_name, phone |-> phone,
     address |-> address, first_kit |-> DefaultKit, second_kit |-> DefaultKit]

\* "Contacto" in line
HasContactMarker(line) == \E i \in 1..Len(line) : line[i] = "Contacto:"

\* The text after "Contacto:", or None when there is none
ContactNameOf(line) ==
    LET at == CHOOSE i \in 1..Len(line) : line[i] = "Contacto:"
    IN  IF HasContactMarker(line) /\ at < Len(line)
        THEN Some(SubSeq(line, at + 1, Len(line))) ELSE None

\* _extract_team_info (Optional record); the lines of the model carry no
\* phone line and no kit section, so phone is None and both kits are empty
ExtractTeamInfo(ls) ==
    LET blocks == { i \in 1..Len(ls) :
                      /\ Len(ls[i]) >= 2
                      /\ NormalizeTextForMatching(SubSeq(ls[i], 1, 2)) = RealTajo
                      /\ \/ HasContactMarker(ls[i])
                         \/ (i < Len(ls) /\ HasContactMarker(ls[i + 1])) }
    IN  IF blocks = {} THEN None
        ELSE LET index == Min(blocks)
                 inline == IF HasContactMarker(ls[index]) THEN ContactNameOf(ls[index])
                           ELSE None
                 from_next == inline = None /\ index < Len(ls)
                              /\ HasContactMarker(ls[index + 1])
                 contact_name == IF from_next THEN ContactNameOf(ls[index + 1])
                                 ELSE inline
                 lookahead == IF from_next THEN index + 2 ELSE index + 1
                 address == IF lookahead <= Len(ls) THEN Some(ls[lookahead]) ELSE None
             IN  Some(TeamInfo(contact_name, None, address))

\* The participants lists a document may open with: none, a list naming two
\* teams, and a list with a name wrapped over two lines closed by the
\* delegation footer.
RosterSet ==
    { <<>>,
      << <<"Equipos", "Participantes">>,
         <<"1.-", "NUEVO", "(1)">>,
         <<"2.-", "REAL", "TAJO", "(1)">> >>,
      << <<"Equipos", "Participantes">>,
         <<"1.-", "EXC">>,
         <<"TAJO", "(1)">>,
         <<"DELEGACION">> >> }

\* The lines that may follow the participants list.
CalendarLineSet ==
    { <<"Primera", "Vuelta">>,
      <<"Jornada", "1", "(d1)">>,
      <<"Jornada", "10">>,
      <<"(d2)">>,
      <<"REAL", "TAJO", "-", "NUEVO">>,
      <<"UFC", "-", "REAL", "TAJO">>,
      <<"REAL", "TAJO", "-", "Descansa">>,
      <<"IRT", "-", "EXC">>,
      <<"TAJO", "-", "REAL", "TAJO">>,
      <<"REAL", "TAJO", "Contacto:", "JUAN">>,
      <<"Jornada", "2", "(d2)", "NUEVO", "-", "REAL", "TAJO">> }

\* The participants list the document opened with
RosterOf(ls) ==
    CHOOSE roster \in RosterSet :
        /\ Len(roster) <= Len(ls)
        /\ SubSeq(ls, 1, Len(roster)) = roster
        /\ \A other \in RosterSet :
              (Len(other) <= Len(ls) /\ SubSeq(ls, 1, Len(other)) = other)
                  => Len(other) <= Len(roster)

\* The outcome of parse()
CalendarResult(status, error, calendar) ==
    [status |-> status, error |-> error, calendar |-> calendar]

\* The locals of _extract_real_tajo_matches, as the variables hold them
CurrentLocals ==
    ScanLocals(cal_matches, current_stage, current_matchday, current_date,
               pending_matchday, jornada_lines, parsed_match, FALSE)

\* The variables take the locals st
LocalsBecome(st) ==
    /\ cal_matches' = st.matches
    /\ current_stage' = st.current_stage
    /\ current_matchday' = st.current_matchday
    /\ current_date' = st.current_date
    /\ pending_matchday' = st.pending_matchday
    /\ jornada_lines' = st.jornada_lines
    /\ parsed_match' = st.parsed_match

CalInit ==
    /\ cal_lines = <<>>
    /\ team_names = <<>>
    /\ cal_matches = <<>>
    /\ current_stage = None
    /\ current_matchday = None
    /\ current_date = None
    /\ pending_matchday = None
    /\ jornada_lines = <<>>
    /\ parsed_match = None
    /\ cal_result = CalendarResult("none", "", None)

\* parse() is called on a document that opens with roster: the participants
\* are read and the round scan goes over the roster's lines
CalOpen(roster) ==
    /\ cal_result.status = "none"
    /\ cal_lines' = roster
    /\ team_names' = ExtractTeamNames(roster)
    /\ LocalsBecome(ScanLines(CurrentLocals, roster, ExtractTeamNames(roster)))
    /\ cal_result' = CalendarResult("reading", "", None)
    /\ UNCHANGED notCalVars

\* The round scan reads one more line of the document
CalLine(line) ==
    /\ cal_result.status = "reading"
    /\ Len(cal_lines) - Len(RosterOf(cal_lines)) < MaxCalendarLines
    /\ cal_lines' = Append(cal_lines, line)
    /\ LET st == ScanLine(CurrentLocals, line, team_names)
       IN  /\ LocalsBecome(st)
           /\ cal_result' = IF st.raised THEN CalendarResult("error", "TypeError", None)
                            ELSE cal_result
    /\ UNCHANGED <<team_names, notCalVars>>

\* The document ends: the last round is finalized and parse() returns or
\* raises
CalFinish ==
    /\ cal_result.status = "reading"
    /\ LET st == FinalizeCurrentJornada(CurrentLocals, team_names)
           team_info == ExtractTeamInfo(cal_lines)
       IN  /\ LocalsBecome(st)
           /\ cal_result' =
                 IF st.raised THEN CalendarResult("error", "TypeError", None)
                 ELSE IF st.matches = <<>> THEN CalendarResult("error", "ValueError", None)
                 ELSE CalendarResult("ok", "",
                         Some([matches |-> st.matches,
                               team_info |-> IF team_info = None
                                             THEN TeamInfo(None, None, None)
                                             ELSE team_info[1]]))
    /\ UNCHANGED <<cal_lines, team_names, notCalVars>>

CalNext ==
    \/ \E roster \in RosterSet : CalOpen(roster)
    \/ \E line \in CalendarLineSet : CalLine(line)
    \/ CalFinish

(***************************************************************************)
(* Grid top scorers: top_scorers_excel_parser.py.  A row is a list of cell *)
(* values (None, str, int or float); the text of a cell is a sequence of   *)
(* tokens: a digit, a word, a punctuation mark or a single space.  Column  *)
(* indices count from 1 where Python counts from 0.  All rows have the     *)
(* width of the sheet, as worksheet.iter_rows yields them.                 *)
(***************************************************************************)
\* Most rows the model puts in one sheet.
MaxGridRows == 3

\* The cell values of a sheet: a str cell has a text, an int or float cell a
\* number.
NoneCell == [type |-> "NoneType", text |-> <<>>, number |-> <<>>]
StrCell(text) == [type |-> "str", text |-> text, number |-> <<>>]
IntCell(n) == [type |-> "int", text |-> <<>>, number |-> <<n>>]
\* A float with one decimal digit: whole + tenth / 10.
FloatCell(whole, tenth) ==
    [type |-> "float", text |-> <<>>, number |-> <<whole, tenth>>]

\* The digits of the model's cells.
Numerals == {"0", "1", "2", "4", "5"}

\* int(token) for a digit.
NumeralValue(t) ==
    CASE t = "0" -> 0 [] t = "1" -> 1 [] t = "2" -> 2 [] t = "4" -> 4 [] t = "5" -> 5

\* str(n) for the numbers the model's cells hold.
NumberText(n) ==
    CASE n = 0 -> "0" [] n = 1 -> "1" [] n = 2 -> "2" [] n = 4 -> "4" [] n = 5 -> "5"

\* _stringify(value)
Stringify(value) ==
    CASE value.type = "NoneType" -> <<>>
      [] value.type = "float" ->
            IF value.number[2] = 0 THEN <<NumberText(value.number[1])>>
            ELSE <<NumberText(value.number[1]), ".", NumberText(value.number[2])>>
      [] value.type = "int" -> <<NumberText(value.number[1])>>
      [] OTHER -> TextStrip(value.text)

\* str.lower() on the words of the model's header cells.
LowerWord(w) ==
    CASE w = "Jugador" -> "jugador"
      [] w = "Equipo" -> "equipo"
      [] w = "Grupo" -> "grupo"
      [] w \in {"Partidos", "PARTIDOS"} -> "partidos"
      [] w = "JUGADOS" -> "jugados"
      [] w = "Goles" -> "goles"
      [] w = "Goles/Partido" -> "goles/partido"
      [] w = "Media" -> "media"
      [] OTHER -> w

RECURSIVE CollapseSpaces(_)
\* " ".join(text.split()) on a text without leading or trailing whitespace.
CollapseSpaces(text) ==
    IF Len(text) < 2 THEN text
    ELSE IF text[1] = " " /\ text[2] = " " THEN CollapseSpaces(Tail(text))
    ELSE <<Head(text)>> \o CollapseSpaces(Tail(text))

\* _normalize_header(value)
NormalizeHeader(value) ==
    CollapseSpaces([i \in 1..Len(Stringify(value)) |-> LowerWord(Stringify(value)[i])])

\* _row_is_empty(row)
RowIsEmpty(row) == \A c \in 1..Len(row) : Stringify(row[c]) = <<>>

\* The keys of _HEADER_ALIASES.
HeaderKeys == {"player", "team", "group", "matches", "goals", "ratio"}

\* _HEADER_ALIASES[key]
HeaderAliases(key) ==
    CASE key = "player" -> {<<"jugador">>}
      [] key = "team" -> {<<"equipo">>}
      [] key = "group" -> {<<"grupo">>}
      [] key = "matches" -> {<<"partidos">>, <<"partidos", " ", "jugados">>}
      [] key = "goals" -> {<<"goles">>}
      [] key = "ratio" -> {<<"goles", " ", "partido">>, <<"goles/partido">>,
                           <<"goles", " ", "por", " ", "partido">>}

\* The columns of the row whose normalised cell is an alias of the key.
AliasColumns(row, key) ==
    {c \in 1..Len(row) : NormalizeHeader(row[c]) \in HeaderAliases(key)}

\* The mapping _locate_header builds for one row: each key that resolves, to
\* the first column holding one of its aliases.
HeaderMapping(row) ==
    [key \in {k \in HeaderKeys : AliasColumns(row, k) # {}} |->
        Min(AliasColumns(row, key))]

\* The test under which _locate_header returns a row.
HeaderAccepted(row) ==
    ~RowIsEmpty(row) /\ DOMAIN HeaderMapping(row) = HeaderKeys

\* _locate_header(rows): Some([index, mapping]) for the first accepted row,
\* None where the code raises ValueError.
LocateHeader(rows) ==
    IF \E i \in 1..Len(rows) : HeaderAccepted(rows[i])
    THEN Some([index |-> Min({i \in 1..Len(rows) : HeaderAccepted(rows[i])}),
               mapping |-> HeaderMapping(
                   rows[Min({i \in 1..Len(rows) : HeaderAccepted(rows[i])})])])
    ELSE None

RECURSIVE Gcd(_, _)
Gcd(a, b) == IF b = 0 THEN a ELSE Gcd(b, a % b)

\* A float, kept as the fraction num / den in lowest terms (den > 0).
Ratio(num, den) == [num |-> num \div Gcd(num, den), den |-> den \div Gcd(num, den)]

\* text.replace(",", ".")
ReplaceComma(text) == [i \in 1..Len(text) |-> IF text[i] = "," THEN "." ELSE text[i]]

\* float(text) as an Optional: digits, or digits "." digit; None where
\* float() raises ValueError.
ParseFloat(text) ==
    IF Len(text) = 1 /\ text[1] \in Numerals
    THEN Some(Ratio(NumeralValue(text[1]), 1))
    ELSE IF Len(text) = 3 /\ text[1] \in Numerals /\ text[2] = "."
            /\ text[3] \in Numerals
    THEN Some(Ratio(10 * NumeralValue(text[1]) + NumeralValue(text[3]), 10))
    ELSE None

\* int(text) as an Optional; None where int() raises ValueError.
ParseInt(text) ==
    IF Len(text) = 1 /\ text[1] \in Numerals THEN Some(NumeralValue(text[1]))
    ELSE None

\* int(float(...)): truncation of a non-negative float.
Truncate(ratio) == ratio.num \div ratio.den

\* _parse_int_cell(value)
ParseIntCell(value) ==
    IF Stringify(value) = <<>> THEN None
    ELSE IF ParseInt(Stringify(value)) # None THEN ParseInt(Stringify(value))
    ELSE IF ParseFloat(ReplaceComma(Stringify(value))) # None
    THEN Some(Truncate(ParseFloat(ReplaceComma(Stringify(value)))[1]))
    ELSE None

\* _parse_ratio_cell(value)
ParseRatioCell(value) ==
    IF Stringify(value) = <<>> THEN None
    ELSE ParseFloat(ReplaceComma(Stringify(value)))

RECURSIVE FirstNumeral(_)
\* _NUMBER_RE.findall(text)[0] as an Optional int.
FirstNumeral(text) ==
    IF text = <<>> THEN None
    ELSE IF Head(text) \in Numerals THEN Some(NumeralValue(Head(text)))
    ELSE FirstNumeral(Tail(text))

\* _parse_goals_cell(value)[0]
ParseGoalsTotal(value) ==
    IF Stringify(value) = <<>> THEN None ELSE FirstNumeral(Stringify(value))

\* The ratio kept as parsed, whatever matches and goals say.
ResolveRatioAsParsed(ratio, matches, goals_total) == ratio

\* if ratio is None and matches and goals_total is not None and matches != 0:
\*     ratio = goals_total / matches
ResolveRatio(ratio, matches, goals_total) ==
    IF ratio = None /\ matches # None /\ matches # Some(0) /\ goals_total # None
    THEN Some(Ratio(goals_total[1], matches[1]))
    ELSE ratio

\* The TopScorerEntry built from a data row; `row` is the index of the row in
\* the sheet (bookkeeping, standing for raw_lines).
ScorerOfRow(rows, i, mapping) ==
    [player |-> Stringify(rows[i][mapping["player"]]),
     matches_played |-> ParseIntCell(rows[i][mapping["matches"]]),
     goals_total |-> ParseGoalsTotal(rows[i][mapping["goals"]]),
     goals_per_match |->
         ResolveRatio(ParseRatioCell(rows[i][mapping["ratio"]]),
                      ParseIntCell(rows[i][mapping["matches"]]),
                      ParseGoalsTotal(rows[i][mapping["goals"]])),
     row |-> i]

\* A row of the loop of parse whose cells are indexed past its end: the
\* player column is read first, the other columns only if there is a player.
RowRaisesIndexError(row, mapping) ==
    /\ ~RowIsEmpty(row)
    /\ \/ mapping["player"] > Len(row)
       \/ /\ Stringify(row[mapping["player"]]) # <<>>
          /\ \E key \in HeaderKeys : mapping[key] > Len(row)

\* Some row after the header raises IndexError.
SomeRowRaises(rows, header) ==
    \E i \in 1..Len(rows) : i > header.index /\ RowRaisesIndexError(rows[i], header.mapping)

\* The rows after the header that yield a scorer: not empty, with a player.
ScorerRows(rows, header) ==
    SelectSeq([i \in 1..Len(rows) |-> i],
              LAMBDA i : /\ i > header.index
                         /\ ~RowIsEmpty(rows[i])
                         /\ header.mapping["player"] <= Len(rows[i])
                         /\ Stringify(rows[i][header.mapping["player"]]) # <<>>)

\* scorers, in row order.
GridScorers(rows, header) ==
    [k \in 1..Len(ScorerRows(rows, header)) |->
        ScorerOfRow(rows, ScorerRows(rows, header)[k], header.mapping)]

GridError(message) == [status |-> "error", message |-> message, scorers |-> <<>>]

\* The sort at the end of parse and the table returned.
GridOrdered(scorers) ==
    IF scorers = <<>> THEN GridError("no scorer entries")
    ELSE [status |-> "ok", message |-> "",
          scorers |-> Entries(SortByKey(
              [k \in 1..Len(scorers) |->
                  [key |-> ExcelSortKey(k - 1, scorers[k]), entry |-> scorers[k]]]))]

GridFromHeader(rows, header) ==
    IF header = None THEN GridError("no headers")
    ELSE IF SomeRowRaises(rows, header[1]) THEN GridError("IndexError")
    ELSE GridOrdered(GridScorers(rows, header[1]))

\* TopScorersExcelParser.parse on the loaded rows.
GridParse(rows) ==
    IF rows = <<>> THEN GridError("no data") ELSE GridFromHeader(rows, LocateHeader(rows))

Word(w) == StrCell(<<w>>)

\* A data row in the usual column order.
DataRow(player, matches, goals, ratio) ==
    <<player, Word("T"), Word("G"), matches, goals, ratio>>

\* Header rows: the usual one with aliases and stray whitespace, one with
\* the goals and ratio columns swapped, and one whose ratio column is not
\* recognised.
HeaderRows ==
    { <<Word("Jugador"), Word("Equipo"), Word("Grupo"),
        StrCell(<<" ", "PARTIDOS", " ", " ", "JUGADOS">>), Word("Goles"),
        Word("Goles/Partido")>>,
      <<Word("Jugador"), Word("Equipo"), Word("Grupo"), Word("Partidos"),
        StrCell(<<"Goles", " ", "partido">>), Word("Goles")>>,
      <<Word("Jugador"), Word("Equipo"), Word("Grupo"), Word("Partidos"),
        Word("Goles"), Word("Media")>> }

EmptyRow == <<NoneCell, NoneCell, NoneCell, NoneCell, StrCell(<<" ">>), NoneCell>>

\* Data rows: matches blank, zero and two; goals blank and known; the ratio
\* blank, a decimal with a comma, text that is no number, whitespace, a
\* float; a row without a player.
DataRows ==
    { DataRow(Word("P"), m, g, r) :
        m \in {NoneCell, IntCell(0), IntCell(2)},
        g \in {NoneCell, Word("4")},
        r \in {NoneCell, StrCell(<<"1", ",", "5">>)} }
    \cup { DataRow(Word("P"), IntCell(2), Word("4"), Word("-")),
           DataRow(Word("P"), IntCell(0), Word("4"), Word("-")),
           DataRow(Word("P"), Word("x"), Word("4"), NoneCell),
           DataRow(Word("P"), FloatCell(2, 0),
                   StrCell(<<"4", " ", "(", "1", " ", "de", " ", "penalti", ")">>),
                   StrCell(<<" ">>)),
           DataRow(Word("P"), IntCell(2), Word("-"), NoneCell),
           DataRow(Word("P"), StrCell(<<"2", ",", "5">>), Word("4"), FloatCell(1, 5)),
           DataRow(NoneCell, IntCell(2), Word("4"), NoneCell) }

\* Rows that stop before the last column of the header: a data row without
\* its ratio cell, and one without a player that stops after the group.
ShortRows ==
    { <<Word("P"), Word("T"), Word("G"), IntCell(2), Word("4")>>,
      <<NoneCell, Word("T"), Word("G")>> }

GridRowSet == HeaderRows \cup {EmptyRow} \cup DataRows \cup ShortRows

GridInit ==
    /\ grid_rows = <<>>
    /\ grid_table = [status |-> "none", message |-> "", scorers |-> <<>>]

\* The sheet has one more row.
GridAddRow(row) ==
    /\ grid_table.status = "none"
    /\ Len(grid_rows) < MaxGridRows
    /\ grid_rows' = Append(grid_rows, row)
    /\ UNCHANGED <<grid_table, notGridVars>>

\* TopScorersExcelParser.parse(document_bytes)
GridParseSheet ==
    /\ grid_table.status = "none"
    /\ grid_table' = GridParse(grid_rows)
    /\ UNCHANGED <<grid_rows, notGridVars>>

GridNext ==
    \/ \E row \in GridRowSet : GridAddRow(row)
    \/ GridParseSheet

(***************************************************************************)
(* Free-text top scorers: top_scorers_pdf_parser.py.  A line is the        *)
(* sequence of its whitespace-separated tokens.                            *)
(***************************************************************************)
\* Most lines the model puts in one document.
MaxPdfLines == 4

\* Tokens matching _ROW_END_PATTERN, ^\d+,\d+$.
RowEndTokens == {"1,00", "0,00"}

\* "Jugador" in line and "Equipo" in line
IsHeaderBand(line) ==
    /\ \E i \in 1..Len(line) : line[i] = "Jugador"
    /\ \E i \in 1..Len(line) : line[i] = "Equipo"

\* _is_header_line(line): "jugados", "goles" or "partido" in line.lower()
IsHeaderLine(line) ==
    \E i \in 1..Len(line) : line[i] \in {"Partidos", "Jugados", "Goles", "partido"}

\* _is_footer_line(line): the upper-cased line starts with a footer prefix.
IsFooterLine(line) == line # <<>> /\ line[1] \in {"DELEGACION", "Delegacion"}

RECURSIVE SkipHeaderLines(_, _)
\* The while loop of _locate_table_start, from `index` (counted from 1).
SkipHeaderLines(lines, index) ==
    IF index <= Len(lines) /\ IsHeaderLine(lines[index])
    THEN SkipHeaderLines(lines, index + 1)
    ELSE index

\* _locate_table_start(lines): the index (from 1) of the first row line; the
\* first line of the document when there is no header band.
LocateTableStart(lines) ==
    IF \E i \in 1..Len(lines) : IsHeaderBand(lines[i])
    THEN SkipHeaderLines(lines, Min({i \in 1..Len(lines) : IsHeaderBand(lines[i])}) + 1)
    ELSE 1

RECURSIVE CollectGroups(_, _, _)
\* The loop of _extract_row_groups over the lines left: groups holds the
\* token list of every closed group, current_tokens the open one.
CollectGroups(lines, current_tokens, groups) ==
    IF lines = <<>> \/ IsFooterLine(Head(lines)) THEN groups
    ELSE IF Head(lines)[Len(Head(lines))] \in RowEndTokens
    THEN CollectGroups(Tail(lines), <<>>,
                       Append(groups, current_tokens \o Head(lines)))
    ELSE CollectGroups(Tail(lines), current_tokens \o Head(lines), groups)

\* _extract_row_groups(lines), the token lists only.
ExtractRowGroups(lines) ==
    CollectGroups(SubSeq(lines, LocateTableStart(lines), Len(lines)), <<>>, <<>>)

\* core_tokens = tokens[:-1]
CoreTokens(tokens) == SubSeq(tokens, 1, Len(tokens) - 1)

\* The indices of core_tokens whose token isdigit().
DigitIndices(tokens) ==
    {i \in 1..Len(CoreTokens(tokens)) : IsNum(CoreTokens(tokens)[i])}

\* _parse_row raises ValueError: fewer than four tokens, or no matches token.
RowRaises(tokens) == Len(tokens) < 4 \/ DigitIndices(tokens) = {}

\* goals_tokens = core_tokens[match_index + 1:]
GoalsTokens(tokens) ==
    SubSeq(CoreTokens(tokens), Min(DigitIndices(tokens)) + 1, Len(CoreTokens(tokens)))

PdfError(message) == [status |-> "error", message |-> message, scorers |-> <<>>]

\* The entries and the sort of parse, once no row raised.
PdfEntries(groups) ==
    [status |-> "ok", message |-> "",
     scorers |-> PdfParse([k \in 1..Len(groups) |-> GoalsTokens(groups[k])]).scorers]

PdfFromGroups(groups) ==
    IF groups = <<>> THEN PdfError("no scorer entries")
    ELSE IF \E k \in 1..Len(groups) : RowRaises(groups[k])
    THEN PdfError("incomplete row")
    ELSE PdfEntries(groups)

\* TopScorersPdfParser.parse on the lines of the document.
PdfParseLines(lines) == PdfFromGroups(ExtractRowGroups(lines))

\* Lines: the header band and its continuation, a title, complete rows, a
\* row split over two lines, a row too short, a row without a matches
\* token, a footer.
PdfLineSet ==
    { <<"Jugador", "Equipo", "Grupo">>,
      <<"Partidos", "Jugados", "Goles", "Goles", "partido">>,
      <<"LIGA,", "Temporada">>,
      <<"PEREZ,", "JUAN", "REAL", "1", "1", "1,00">>,
      <<"LOPEZ,", "ANA", "CLUB", "1", "0", "0,00">>,
      <<"GARCIA,", "LUIS", "REAL">>,
      <<"1", "1", "1,00">>,
      <<"RUIZ,", "EVA", "REAL", "x", "1,00">>,
      <<"DELEGACION", "MADRID">> }

PdfInit ==
    /\ pdf_lines = <<>>
    /\ pdf_outcome = [status |-> "none", message |-> "", scorers |-> <<>>]

\* The document has one more line.
PdfAddLine(line) ==
    /\ pdf_outcome.status = "none"
    /\ Len(pdf_lines) < MaxPdfLines
    /\ pdf_lines' = Append(pdf_lines, line)
    /\ UNCHANGED <<pdf_outcome, notPdfVars>>

\* TopScorersPdfParser.parse(document_bytes)
PdfParseDocument ==
    /\ pdf_outcome.status = "none"
    /\ pdf_outcome' = PdfParseLines(pdf_lines)
    /\ UNCHANGED <<pdf_lines, notPdfVars>>

PdfNext ==
    \/ \E line \in PdfLineSet : PdfAddLine(line)
    \/ PdfParseDocument

(***************************************************************************)
(* Row reassembly as a function of its input: _merge_row_lines and         *)
(* RowAssembler.merge (the same code), applied to the whitespace-          *)
(* normalised, non-empty lines extract_classification hands it, and then   *)
(* to its own result.                                                      *)
(***************************************************************************)
\* Most lines in one input of the merge.
MaxMergeLines == 4

\* Lines: rows "1 C" and "2B", and fragments "1 0", "Liga", "C 3" and "3".
MergeLineSet ==
    { <<DigitsPiece(<<1>>), SpacePiece, WordPiece("C")>>,
      <<DigitsPiece(<<2>>), WordPiece("B")>>,
      <<DigitsPiece(<<1>>), SpacePiece, DigitsPiece(<<0>>)>>,
      <<WordPiece("Liga")>>,
      <<WordPiece("C"), SpacePiece, DigitsPiece(<<3>>)>>,
      <<DigitsPiece(<<3>>)>> }

MergeInit ==
    /\ merge_lines = <<>>
    /\ merged_once = None
    /\ merged_twice = None

\* The input has one more line.
MergeAddLine(line) ==
    /\ merged_once = None
    /\ Len(merge_lines) < MaxMergeLines
    /\ merge_lines' = Append(merge_lines, line)
    /\ UNCHANGED <<merged_once, merged_twice, notMergeVars>>

\* merge(L)
MergeApply ==
    /\ merged_once = None
    /\ merged_once' = Some(MergeRowLines(merge_lines))
    /\ UNCHANGED <<merge_lines, merged_twice, notMergeVars>>

\* merge(merge(L))
MergeAgain ==
    /\ merged_once # None /\ merged_twice = None
    /\ merged_twice' = Some(MergeRowLines(merged_once[1]))
    /\ UNCHANGED <<merge_lines, merged_once, notMergeVars>>

MergeNext ==
    \/ \E line \in MergeLineSet : MergeAddLine(line)
    \/ MergeApply
    \/ MergeAgain

(***************************************************************************)
(* Extraction calls side by side.  A call of _extract_fixtures, of         *)
(* StatisticsDecoder.decode or of _extract_real_tajo_matches owns a frame: *)
(* its document, the position of its loop and its locals.  Two calls may   *)
(* be in flight (one per worker thread of the HTTP shell); a step of one   *)
(* is one iteration of its loop over the lines or tokens of its document.  *)
(***************************************************************************)
\* Calls in flight at once.
MaxCalls == 2

\* The documents the calls are given: two matchday documents, two stats
\* sections (as token lists) and two calendar documents.
CallDocuments ==
    << [kind |-> "matchday",
        lines |-> << <<"A">>, <<"11-10-2025">>, <<"B">> >>],
       [kind |-> "matchday",
        lines |-> << <<"X", "Descansa">>, <<"A", "1", "-", "0", "B">> >>],
       [kind |-> "stats", lines |-> << <<3>>, <<1>> >>],
       [kind |-> "stats", lines |-> << <<3, 1, 1, 0, 0, 3, 1, 3, 0>> >>],
       [kind |-> "calendar",
        lines |-> << <<"Equipos", "Participantes">>, <<"1.-", "NUEVO", "(1)">>,
                     <<"2.-", "REAL", "TAJO", "(1)">>,
                     <<"Jornada", "2", "(d2)", "NUEVO", "-", "REAL", "TAJO">> >>],
       [kind |-> "calendar",
        lines |-> << <<"Jornada", "1", "(d1)">>, <<"IRT", "-", "EXC">> >>] >>

\* The empty buffers a call starts from: lines 87-94 of matchday_pdf_parser.py,
\* line 50 of classification_decoders.py, lines 162-169 of
\* real_tajo_calendar_parser.py.
FreshBuffers(kind) ==
    CASE kind = "matchday" ->
            [fixtures |-> <<>>, team_buffer |-> <<>>, pending_home |-> None,
             pending_away |-> None, pending_scores |-> None, pending_date |-> None,
             pending_time |-> None, awaiting_away |-> FALSE]
      [] kind = "stats" -> [token_list |-> <<>>]
      [] kind = "calendar" ->
            ScanLocals(<<>>, None, None, None, None, <<>>, None, FALSE)

\* Buffers that outlive a call: a new call takes over what another call of
\* the same extractor has in its buffers.
BuffersLeftBehind(kind, frames, c) ==
    IF \E d \in DOMAIN frames : d # c /\ frames[d].kind = kind
    THEN frames[CHOOSE d \in DOMAIN frames : d # c /\ frames[d].kind = kind].locals
    ELSE FreshBuffers(kind)

\* The buffers of call c when it starts, the other frames being as they are.
BuffersAtCall(kind, frames, c) == FreshBuffers(kind)

\* One iteration of the loop of the call, on its own locals.
LoopStep(kind, locals, lines, pos) ==
    CASE kind = "matchday" -> ProcessLine(locals, lines[pos])
      [] kind = "stats" -> [token_list |-> Append(locals.token_list, lines[pos])]
      [] kind = "calendar" ->
            IF locals.raised THEN locals
            ELSE ScanLine(locals, lines[pos], ExtractTeamNames(lines))

\* What the calendar scan returns or raises after its last line.
CalendarOutcome(st) ==
    IF st.raised THEN [status |-> "error", error |-> "TypeError", value |-> <<>>]
    ELSE IF st.matches = <<>>
    THEN [status |-> "error", error |-> "ValueError", value |-> <<>>]
    ELSE [status |-> "ok", error |-> "", value |-> st.matches]

\* What the call returns once its loop is over.
CallResult(kind, locals, lines) ==
    CASE kind = "matchday" ->
            [status |-> "ok", error |-> "", value |-> EndOfInput(locals).fixtures]
      [] kind = "stats" ->
            [status |-> "ok", error |-> "", value |-> Decode(locals.token_list).values]
      [] kind = "calendar" ->
            IF locals.raised THEN CalendarOutcome(locals)
            ELSE CalendarOutcome(FinalizeCurrentJornada(locals, ExtractTeamNames(lines)))

RECURSIVE LoopFrom(_, _, _, _)
\* The whole loop of a call that runs alone, from position pos.
LoopFrom(kind, locals, lines, pos) ==
    IF pos > Len(lines) THEN locals
    ELSE LoopFrom(kind, LoopStep(kind, locals, lines, pos), lines, pos + 1)

\* The result of extracting the document with nothing else running.
ExtractAlone(document) ==
    CallResult(document.kind,
               LoopFrom(document.kind, FreshBuffers(document.kind), document.lines, 1),
               document.lines)

IdleFrame == [kind |-> "none", doc |-> 0, pos |-> 0, locals |-> <<>>,
              status |-> "idle", result |-> <<>>]

CallInit == call_frames = [c \in 1..MaxCalls |-> IdleFrame]

\* Call c starts on document doc.
CallStart(c, doc) ==
    /\ call_frames[c].status = "idle"
    /\ call_frames' = [call_frames EXCEPT ![c] =
           [kind |-> CallDocuments[doc].kind, doc |-> doc, pos |-> 1,
            locals |-> BuffersAtCall(CallDocuments[doc].kind, call_frames, c),
            status |-> "running", result |-> <<>>]]
    /\ UNCHANGED notCallVars

\* Call c runs one iteration of its loop.
CallStep(c) ==
    /\ call_frames[c].status = "running"
    /\ call_frames[c].pos <= Len(CallDocuments[call_frames[c].doc].lines)
    /\ call_frames' = [call_frames EXCEPT ![c] =
           [@ EXCEPT !.locals = LoopStep(call_frames[c].kind, call_frames[c].locals,
                                         CallDocuments[call_frames[c].doc].lines,
                                         call_frames[c].pos),
                     !.pos = @ + 1]]
    /\ UNCHANGED notCallVars

\* Call c leaves its loop and returns or raises.
CallReturn(c) ==
    /\ call_frames[c].status = "running"
    /\ call_frames[c].pos > Len(CallDocuments[call_frames[c].doc].lines)
    /\ call_frames' = [call_frames EXCEPT ![c] =
           [@ EXCEPT !.status = "returned",
                     !.result = CallResult(call_frames[c].kind, call_frames[c].locals,
                                           CallDocuments[call_frames[c].doc].lines)]]
    /\ UNCHANGED notCallVars

CallNext ==
    \/ \E c \in 1..MaxCalls, doc \in 1..Len(CallDocuments) : CallStart(c, doc)
    \/ \E c \in 1..MaxCalls : CallStep(c)
    \/ \E c \in 1..MaxCalls : CallReturn(c)

(***************************************************************************)
(* _segment_digits_sequence on its own: a run of digits of any length is   *)
(* handed to it and it returns a solution or None.                         *)
(***************************************************************************)
\* Longest run of digits handed to the segmentation.
MaxSegmentDigits == 10

SegInit ==
    /\ seg_digits = <<>>
    /\ seg_solution = [done |-> FALSE, values |-> NoList]

\* The run of digits is one digit longer.
SegAppendDigit(d) ==
    /\ ~seg_solution.done
    /\ Len(seg_digits) < MaxSegmentDigits
    /\ seg_digits' = Append(seg_digits, d)
    /\ UNCHANGED <<seg_solution, notSegVars>>

\* self._segment_digits_sequence(digits, expected_values)
SegSegment ==
    /\ ~seg_solution.done
    /\ seg_solution' = [done |-> TRUE, values |-> SegmentDigitsSequence(seg_digits)]
    /\ UNCHANGED <<seg_digits, notSegVars>>

SegNext ==
    \/ \E d \in StatDigits : SegAppendDigit(d)
    \/ SegSegment

(***************************************************************************)
(* _normalize_stats_section.  The section is held as its whitespace-       *)
(* separated tokens, a token as its sequence of characters; the returned   *)
(* string is held as the tokens that " ".join puts together.               *)
(***************************************************************************)
\* Most tokens in a stats section of the model.
MaxFormTokens == 4

\* Tokens the trailing-stats pattern lets into a section: form letters in
\* both cases, numerals, and letters glued to each other or to a digit.
FormTokenSet ==
    { <<"G">>, <<"g">>, <<"E">>, <<"e">>, <<"P">>, <<"p">>,
      <<"3">>, <<"1", "0">>, <<"G", "G">>, <<"7", "e">> }

\* str.upper() on a character of a section.
UpperChar(ch) ==
    CASE ch = "g" -> "G" [] ch = "e" -> "E" [] ch = "p" -> "P" [] OTHER -> ch

\* token.upper()
Upper(token) == [i \in 1..Len(token) |-> UpperChar(token[i])]

\* _FORM_TOKEN_TO_POINTS.get(token.upper()), as int(mapped) when it is there.
FormTokenToPoints(token) ==
    CASE Upper(token) = <<"G">> -> Some(3)
      [] Upper(token) = <<"E">> -> Some(1)
      [] Upper(token) = <<"P">> -> Some(0)
      [] OTHER -> None

DecimalDigit(d) ==
    CASE d = 0 -> "0" [] d = 1 -> "1" [] d = 2 -> "2" [] d = 3 -> "3" [] d = 4 -> "4"
      [] d = 5 -> "5" [] d = 6 -> "6" [] d = 7 -> "7" [] d = 8 -> "8" [] d = 9 -> "9"

RECURSIVE DecimalText(_)
\* str(n) for n >= 0
DecimalText(n) ==
    IF n < 10 THEN <<DecimalDigit(n)>>
    ELSE Append(DecimalText(n \div 10), DecimalDigit(n % 10))

RECURSIVE SumOf(_)
\* sum(accumulated_form_points)
SumOf(points) == IF points = <<>> THEN 0 ELSE Head(points) + SumOf(Tail(points))

\* flush_form_points putting every point out as a token of its own.
FlushEachPoint(normalized_tokens, accumulated_form_points) ==
    normalized_tokens
    \o [i \in 1..Len(accumulated_form_points) |-> DecimalText(accumulated_form_points[i])]

\* flush_form_points: normalized_tokens after the call (the accumulated
\* points are cleared by the caller of this operator).
FlushFormPoints(normalized_tokens, accumulated_form_points) ==
    IF accumulated_form_points # <<>>
    THEN Append(normalized_tokens, DecimalText(SumOf(accumulated_form_points)))
    ELSE normalized_tokens

RECURSIVE FormLoop(_, _, _, _)
\* The for-loop over tokens from its i-th token, and the flush after it.
FormLoop(tokens, i, normalized_tokens, accumulated_form_points) ==
    IF i > Len(tokens) THEN FlushFormPoints(normalized_tokens, accumulated_form_points)
    ELSE IF FormTokenToPoints(tokens[i]) # None
    THEN FormLoop(tokens, i + 1, normalized_tokens,
                  Append(accumulated_form_points, FormTokenToPoints(tokens[i])[1]))
    ELSE FormLoop(tokens, i + 1,
                  Append(FlushFormPoints(normalized_tokens, accumulated_form_points),
                         tokens[i]),
                  <<>>)

\* _normalize_stats_section(section), on the tokens of the section.
NormalizeStatsSection(tokens) ==
    IF tokens = <<>> THEN <<>> ELSE FormLoop(tokens, 1, <<>>, <<>>)

FormInit ==
    /\ form_tokens = <<>>
    /\ form_normalized = [done |-> FALSE, tokens |-> <<>>]

\* The section has one more token.
FormAddToken(token) ==
    /\ ~form_normalized.done
    /\ Len(form_tokens) < MaxFormTokens
    /\ form_tokens' = Append(form_tokens, token)
    /\ UNCHANGED <<form_normalized, notFormVars>>

\* stats_section = _normalize_stats_section(...)
FormNormalize ==
    /\ ~form_normalized.done
    /\ form_normalized' = [done |-> TRUE, tokens |-> NormalizeStatsSection(form_tokens)]
    /\ UNCHANGED <<form_tokens, notFormVars>>

FormNext ==
    \/ \E token \in FormTokenSet : FormAddToken(token)
    \/ FormNormalize

(***************************************************************************)
(* Online players: minecraft_log_online_player_repository.py.  A log line  *)
(* is held as what the server wrote: a login "<time> <username>[/<endpoint>]*)
(* logged in", a logout "<username> lost connection:" or "<username> left  *)
(* the game", or a chat line that quotes such words.  An endpoint is the   *)
(* sequence of its parts, a time the sequence of its digits.               *)
(***************************************************************************)
\* Most lines in the server log of the model.
MaxLogLines == 3

LogUsers == {"Steve", "Alex"}

\* Endpoints: address and port, a bracketed IPv6 literal with its port, a
\* host with a port that is no number, and a bare host.
LogEndpoints ==
    { <<"1.2.3.4", ":", "25565">>, <<"[", "::1", "]", ":", "25565">>,
      <<"host", ":", "abc">>, <<"local">> }

\* Times of day as the log prints them: "09", "10" and "9".
LogTimes == { <<0, 9>>, <<1, 0>>, <<9>> }

LogLine(kind, username, endpoint, time) ==
    [kind |-> kind, username |-> username, endpoint |-> endpoint, time |-> time]

LogLineSet ==
    { LogLine("login", u, e, t) : u \in LogUsers, e \in LogEndpoints, t \in LogTimes }
    \cup { LogLine(k, u, <<>>, <<1, 0>>) : k \in {"lost", "left"}, u \in LogUsers }
    \cup { LogLine("chat", "Alex", <<>>, <<1, 0>>) }

\* _LOGIN_PATTERN.search(line): the endpoint group takes everything up to the
\* first "]", which " logged in" must follow.
LoginMatch(line) ==
    /\ line.kind = "login"
    /\ \A i \in 1..Len(line.endpoint) : line.endpoint[i] # "]"

\* _extract_logout_player: Some(username) or None
ExtractLogoutPlayer(line) ==
    IF line.kind \in {"lost", "left"} THEN Some(line.username) ELSE None

\* str.isdigit() on a part of an endpoint
IsDigitPart(part) == part \in {"25565"}

\* int(raw_port)
PortValue(part) == CASE part = "25565" -> 25565

\* The position of the last ":" of the endpoint, 0 when there is none.
LastColon(endpoint) ==
    IF \E i \in 1..Len(endpoint) : endpoint[i] = ":"
    THEN CHOOSE i \in 1..Len(endpoint) :
            /\ endpoint[i] = ":"
            /\ \A j \in (i + 1)..Len(endpoint) : endpoint[j] # ":"
    ELSE 0

\* _split_endpoint: [ip_address, raw_port], each Optional
SplitEndpoint(endpoint) ==
    IF endpoint = <<>> THEN [ip_address |-> None, raw_port |-> None]
    ELSE IF endpoint[1] = "[" /\ \E i \in 1..Len(endpoint) : endpoint[i] = "]"
    THEN LET closing_index == CHOOSE i \in 1..Len(endpoint) :
                                 /\ endpoint[i] = "]"
                                 /\ \A j \in 1..(i - 1) : endpoint[j] # "]"
         IN  [ip_address |-> Some(SubSeq(endpoint, 2, closing_index - 1)),
              raw_port |-> IF closing_index + 2 <= Len(endpoint)
                              /\ endpoint[closing_index + 1] = ":"
                           THEN Some(endpoint[closing_index + 2]) ELSE None]
    ELSE IF LastColon(endpoint) # 0
            /\ LastColon(endpoint) + 1 = Len(endpoint)
            /\ IsDigitPart(endpoint[Len(endpoint)])
    THEN [ip_address |-> Some(SubSeq(endpoint, 1, LastColon(endpoint) - 1)),
          raw_port |-> Some(endpoint[Len(endpoint)])]
    ELSE [ip_address |-> Some(endpoint), raw_port |-> None]

\* _parse_port
ParsePort(raw_port) ==
    IF raw_port = None THEN None
    ELSE IF IsDigitPart(raw_port[1]) THEN Some(PortValue(raw_port[1])) ELSE None

\* PlayerSession(username, ip_address, port, login_time) of a login line
PlayerSession(line) ==
    [username |-> line.username,
     ip_address |-> SplitEndpoint(line.endpoint).ip_address,
     port |-> ParsePort(SplitEndpoint(line.endpoint).raw_port),
     login_time |-> line.time]

\* active_sessions[username] = session on the dict held as the sequence of
\* its values in insertion order.
PutSession(active_sessions, session) ==
    IF \E k \in 1..Len(active_sessions) : active_sessions[k].username = session.username
    THEN [k \in 1..Len(active_sessions) |->
             IF active_sessions[k].username = session.username THEN session
             ELSE active_sessions[k]]
    ELSE Append(active_sessions, session)

\* active_sessions.pop(username, None)
PopSession(active_sessions, username) ==
    SelectSeq(active_sessions, LAMBDA session : session.username # username)

\* a < b for the strings of digits a and b
TimeBefore(a, b) ==
    \/ \E k \in 1..Len(a) : /\ k <= Len(b) /\ a[k] < b[k]
                            /\ \A j \in 1..(k - 1) : a[j] = b[j]
    \/ Len(a) < Len(b) /\ \A j \in 1..Len(a) : a[j] = b[j]

RECURSIVE InsertSession(_, _)
\* session put into the sorted list after every session not later than it
InsertSession(sorted, session) ==
    IF sorted = <<>> THEN <<session>>
    ELSE IF TimeBefore(session.login_time, Head(sorted).login_time)
    THEN <<session>> \o sorted
    ELSE <<Head(sorted)>> \o InsertSession(Tail(sorted), session)

RECURSIVE SortedByLoginTime(_)
\* sorted(active_sessions.values(), key=login_time): a stable sort
SortedByLoginTime(sessions) ==
    IF sessions = <<>> THEN <<>>
    ELSE InsertSession(SortedByLoginTime(SubSeq(sessions, 1, Len(sessions) - 1)),
                       sessions[Len(sessions)])

\* One iteration of "for line in handle"
ReadLogLine(active_sessions, line) ==
    IF LoginMatch(line) THEN PutSession(active_sessions, PlayerSession(line))
    ELSE IF ExtractLogoutPlayer(line) # None
    THEN PopSession(active_sessions, ExtractLogoutPlayer(line)[1])
    ELSE active_sessions

RECURSIVE ReadLog(_, _)
\* The loop over the lines of the file
ReadLog(active_sessions, lines) ==
    IF lines = <<>> THEN active_sessions
    ELSE ReadLog(ReadLogLine(active_sessions, Head(lines)), Tail(lines))

\* MinecraftLogOnlinePlayerRepository.retrieve_online_players
RetrieveOnlinePlayers(exists, lines) ==
    IF ~exists THEN <<>> ELSE SortedByLoginTime(ReadLog(<<>>, lines))

LogInit ==
    /\ log_exists = FALSE
    /\ log_lines = <<>>
    /\ online_players = [done |-> FALSE, sessions |-> <<>>]

\* The server starts and creates its log.
LogCreate ==
    /\ ~log_exists /\ ~online_players.done
    /\ log_exists' = TRUE
    /\ UNCHANGED <<log_lines, online_players, notLogVars>>

\* The server writes one more line.
LogWrite(line) ==
    /\ log_exists /\ ~online_players.done
    /\ Len(log_lines) < MaxLogLines
    /\ log_lines' = Append(log_lines, line)
    /\ UNCHANGED <<log_exists, online_players, notLogVars>>

\* repository.retrieve_online_players()
LogRetrieve ==
    /\ ~online_players.done
    /\ online_players' = [done |-> TRUE,
                          sessions |-> RetrieveOnlinePlayers(log_exists, log_lines)]
    /\ UNCHANGED <<log_exists, log_lines, notLogVars>>

LogNext ==
    \/ LogCreate
    \/ \E line \in LogLineSet : LogWrite(line)
    \/ LogRetrieve

Init ==
    /\ StatsInit /\ MdInit /\ CalInit /\ ScInit /\ ClInit /\ ModelInit /\ RepoInit
    /\ TeamInit /\ GridInit /\ PdfInit /\ MergeInit /\ CallInit /\ SegInit /\ FormInit /\ LogInit

SpecStats == Init /\ [][StatsNext]_vars

SpecMatchday == Init /\ [][MdNext]_vars

SpecScorers == Init /\ [][ScNext]_vars

SpecClassification == Init /\ [][ClNext]_vars

SpecModels == Init /\ [][ModelNext]_vars

SpecRepository == Init /\ [][RepoNext]_vars

SpecTeam == Init /\ [][TeamNext]_vars

SpecCalendar == Init /\ [][CalNext]_vars

SpecGrid == Init /\ [][GridNext]_vars

SpecPdfScorers == Init /\ [][PdfNext]_vars

SpecMerge == Init /\ [][MergeNext]_vars

SpecCalls == Init /\ [][CallNext]_vars

SpecSegment == Init /\ [][SegNext]_vars

SpecForm == Init /\ [][FormNext]_vars

SpecLog == Init /\ [][LogNext]_vars

\* C1: a vector returned by the first attempt (the first nine tokens accepted)
\* or by the backtracking digit segmentation satisfies
\* played = wins + draws + losses and points = wins*3 + draws - sanction_points
\* with points >= 0; only the degraded fallback can return a vector that does not.
C1_ValidatedVectorsConsistent ==
    stats_result.path \in {"first", "segmented"} =>
        LET v == stats_result.values
        IN  /\ Len(v) = ExpectedValues
            /\ v[2] = v[3] + v[4] + v[5]
            /\ v[1] = v[3] * 3 + v[4] - v[9]
            /\ v[1] >= 0

\* A glued nine-digit section was segmented into a row with at least one win,
\* after the nine-token attempt did not apply.
C1_Witness ==
    /\ stats_result.path = "segmented"
    /\ Len(stats_tokens) = 1
    /\ stats_result.values[3] >= 1


\* C2: every fixture the matchday extractor emits with is_bye = True has
\* away_team None, home_score None and away_score None.
C2_ByeHasNoAwayNoScores ==
    \A i \in 1..Len(fixtures) :
        fixtures[i].is_bye =>
            /\ fixtures[i].away_team = None
            /\ fixtures[i].home_score = None
            /\ fixtures[i].away_score = None

\* The line just read carries "descansa" and emitted a bye fixture, in an
\* output that also holds a fixture with scores.
C2_Witness ==
    /\ md_result = Running
    /\ HasDescansa(md_line)
    /\ fixtures # <<>>
    /\ fixtures[Len(fixtures)].is_bye
    /\ \E i \in 1..Len(fixtures) : fixtures[i].home_score # None

\* C3: once a pending home team and a pending away team are both set, the
\* step that clears or overwrites either of them emits that pairing as a
\* non-bye fixture carrying the pending scores; in particular a bye line
\* right after the pairing leaves the pairing in the output before the bye.
C3_PairingEmittedBeforeCleared ==
    [][ ( /\ md_result = Running
          /\ pending_home # None
          /\ pending_away # None
          /\ (pending_home' # pending_home \/ pending_away' # pending_away) )
        => \E i \in (Len(fixtures) + 1)..Len(fixtures') :
              /\ ~fixtures'[i].is_bye
              /\ fixtures'[i].home_team = pending_home[1]
              /\ fixtures'[i].away_team = pending_away
              /\ fixtures'[i].home_score =
                    (IF pending_scores # None THEN Some(pending_scores[1][1]) ELSE None)
              /\ fixtures'[i].away_score =
                    (IF pending_scores # None THEN Some(pending_scores[1][2]) ELSE None)
      ]_vars

\* C7: parse() returns a Matchday only when a round number was found and at
\* least one fixture was emitted, and raises when either is missing; the
\* Matchday carries that number and those fixtures.
C7_ParseNeedsNumberAndFixtures ==
    /\ md_result.status = "ok" =>
          /\ md_number # None
          /\ fixtures # <<>>
          /\ md_result.number = md_number[1]
          /\ md_result.fixtures = fixtures
    /\ md_result.status = "error" => (md_number = None \/ fixtures = <<>>)
    /\ (md_result.status # "running" /\ (md_number = None \/ fixtures = <<>>))
          => md_result.status = "error"
    /\ (md_number = None /\ md_count > 0) => JornadaNumber(md_line) = None

\* parse() raised for want of fixtures although the round number was found
\* and a team line was read after it.
C7_Witness ==
    /\ md_result.status = "error"
    /\ md_number # None
    /\ fixtures = <<>>
    /\ md_count >= 2
    /\ IsTeamFragment(md_line)

\* C4: for both top-scorer input shapes the returned scorers are sorted
\* non-increasing by goals_total with a missing goals_total counted as -1 (so
\* it comes after every known total, a total of 0 included), and entries with
\* equal goals_total keep their discovery order.
C4_ScorersSortedByGoals ==
    \A table \in {excel_table, pdf_table} :
        table.status = "ok" =>
            LET s == table.scorers
                goals(e) == IF e.goals_total = None THEN -1 ELSE e.goals_total[1]
            IN  /\ Len(s) = Len(scorer_rows)
                /\ \A i, j \in 1..Len(s) :
                       i < j => \/ goals(s[i]) > goals(s[j])
                                \/ /\ goals(s[i]) = goals(s[j])
                                   /\ s[i].player < s[j].player

\* C5: when the section is one header line followed by rank-prefixed row lines
\* and then the section-end marker, every rank-prefixed line is decoded into a
\* row (the first data row is not taken as a header line); in particular the
\* lines "Equipos Puntos", "1EQUIPOA 3 1 1 0 0 2 1 3 0", "(*) Resultado
\* provisional" give exactly one row, team EQUIPOA, stats 3,1,1,0,0,2,1,3,0.
C5_SingleHeaderRowsDecoded ==
    classification_table.status = "ok" =>
        LET section == SubSeq(normalized_lines, start_index[1] + 1, end_index[1])
            rank_prefixed(l) ==
                /\ l[1].digits # <<>>
                /\ \E i \in 1..Len(l) : l[i].word \notin {"", " ", "(*)"}
            rows == classification_table.rows
        IN  /\ ( /\ end_index[1] < Len(normalized_lines)
                 /\ Len(section) >= 2
                 /\ \A k \in 2..Len(section) : rank_prefixed(section[k]) )
               => /\ Len(rows) = Len(section) - 1
                  /\ \A k \in 1..Len(rows) : rows[k].raw = section[k + 1]
            /\ ( /\ Len(normalized_lines) = 3
                 /\ normalized_lines[1] =
                       <<WordPiece("Equipos"), SpacePiece, WordPiece("Puntos")>>
                 /\ normalized_lines[2][1] = DigitsPiece(<<1>>)
                 /\ normalized_lines[2][2] = WordPiece("EQUIPOA")
                 /\ normalized_lines[3][1] = WordPiece("(*)") )
               => /\ Len(rows) = 1
                  /\ rows[1].position = 1
                  /\ rows[1].team = <<WordPiece("EQUIPOA")>>
                  /\ rows[1].stats = <<3, 1, 1, 0, 0, 2, 1, 3, 0>>

\* C6: when no line contains "equipos" (case-folded) the extraction raises and
\* returns no table; when such a line exists no error is raised and the
\* section starts at the first one.
C6_MissingHeaderRaises ==
    classification_table.status # "none" =>
        LET hits == {i \in 1..Len(normalized_lines) :
                        \E k \in 1..Len(normalized_lines[i]) :
                            normalized_lines[i][k].word \in {"Equipos", "EQUIPOS"}}
        IN  /\ hits = {} =>
                  /\ classification_table.status = "error"
                  /\ classification_table.headers = <<>>
                  /\ classification_table.rows = <<>>
                  /\ start_index = None
            /\ hits # {} =>
                  /\ classification_table.status = "ok"
                  /\ start_index # None
                  /\ start_index[1] + 1 \in hits
                  /\ \A i \in hits : start_index[1] + 1 <= i
                  /\ classification_table.headers # <<>> =>
                        classification_table.headers[1] =
                            normalized_lines[start_index[1] + 1]

\* The extraction raised on a document that has a rank-prefixed row line
\* but no "equipos" line.
C6_Witness ==
    /\ classification_table.status = "error"
    /\ Len(normalized_lines) >= 2
    /\ \E i \in 1..Len(normalized_lines) : IsRowStart(normalized_lines[i])

\* C8: for every record type (Matchday with its fixtures, ClassificationTable
\* with rows and last_match, MatchdayResults, RealTajoCalendar,
\* TopScorersTable) and every constructed instance x, to_dict succeeds and
\* from_dict(to_dict(x)) equals x.
C8_RoundTripIsIdentity ==
    /\ serialized.status # "raised"
    /\ restored.status = "ok" => restored.value = instance[1].value

\* C9: RealTajoMatch.from_dict on a payload whose date is missing or None
\* yields a match whose match_date is None and whose to_dict has date None; a
\* valid ISO date string is parsed into that date and serialized back to the
\* same string.
C9_MissingDateStaysUnset ==
    match.status = "ok" =>
        LET date == match_payload[1].date
            built == match_dict.status # "none"
        IN  /\ date = None =>
                  /\ match.value.match_date = None
                  /\ built => ( /\ match_dict.status = "ok"
                                /\ match_dict.value.date = None )
            /\ date = Some("2025-10-18") =>
                  /\ match.value.match_date =
                        Some([year |-> 2025, month |-> 10, day |-> 18])
                  /\ built => ( /\ match_dict.status = "ok"
                                /\ match_dict.value.date = Some("2025-10-18") )

\* C10: after any sequence of save, delete and delete_last, get_last() returns
\* the stored matchday with the greatest number, which is what get of that
\* number returns, and returns None exactly when no matchday is stored.
C10_GetLastIsGreatest ==
    repo_call.op = "get_last" =>
        LET stored == DOMAIN files
        IN  /\ repo_call.result = None <=> stored = {}
            /\ stored # {} =>
                  LET greatest == CHOOSE n \in stored : \A k \in stored : k <= n
                  IN  /\ repo_call.result = Get(files, greatest)
                      /\ repo_call.result[1].number = greatest

\* get_last() answered with two matchdays stored, the greater of them carrying
\* a fixture.
C10_Witness ==
    /\ repo_call.op = "get_last"
    /\ Cardinality(DOMAIN files) >= 2
    /\ repo_call.result # None
    /\ repo_call.result[1].fixtures # <<>>

\* C11: delete(n) returns True exactly when a matchday numbered n was stored
\* and then removes that matchday only; delete_last() removes the
\* highest-numbered stored matchday only and returns True, or returns False
\* when nothing is stored; every other stored matchday is left as it was.
C11_DeleteRemovesOnlyTarget ==
    [][ /\ (repo_call'.op = "delete" /\ <<files, repo_call>>' # <<files, repo_call>>) =>
            LET n == repo_call'.number
            IN  /\ repo_call'.result = <<n \in DOMAIN files>>
                /\ DOMAIN files' = DOMAIN files \ {n}
                /\ \A k \in DOMAIN files' : files'[k] = files[k]
        /\ (repo_call'.op = "delete_last" /\ <<files, repo_call>>' # <<files, repo_call>>) =>
            /\ repo_call'.result = <<DOMAIN files # {}>>
            /\ DOMAIN files # {} =>
                  LET greatest == CHOOSE n \in DOMAIN files :
                                      \A k \in DOMAIN files : k <= n
                  IN  DOMAIN files' = DOMAIN files \ {greatest}
            /\ DOMAIN files = {} => files' = files
            /\ \A k \in DOMAIN files' : files'[k] = files[k]
      ]_vars

\* delete(n) or delete_last() has just removed a matchday and another one is
\* still stored.
C11_Witness ==
    /\ repo_call.op \in {"delete", "delete_last"}
    /\ repo_call.result = <<TRUE>>
    /\ files # <<>>

\* C12: updating the latest matchday with m answers 404
\* (LatestMatchdayNotFoundError) when nothing is stored and 409
\* (LatestMatchdayNumberMismatchError) when m.number is not the number of the
\* latest stored matchday, leaving the stored matchdays as they were in both
\* cases; otherwise it replaces the latest stored matchday with m and the set
\* of stored numbers stays the same.
C12_UpdateLatestGuarded ==
    [][ (repo_call'.op = "modify_latest" /\ <<files, repo_call>>' # <<files, repo_call>>) =>
            LET n == repo_call'.number
                stored == DOMAIN files
                response == repo_call'.result
            IN  IF stored = {}
                THEN /\ response = <<404, "LatestMatchdayNotFoundError">>
                     /\ files' = files
                ELSE LET greatest == CHOOSE g \in stored : \A k \in stored : k <= g
                     IN  IF n # greatest
                         THEN /\ response = <<409, "LatestMatchdayNumberMismatchError">>
                              /\ files' = files
                         ELSE /\ response[1] = 200
                              /\ response[2].number = n
                              /\ Get(files', n) = Some(response[2])
                              /\ DOMAIN files' = stored
                              /\ \A k \in stored \ {n} : files'[k] = files[k]
      ]_vars

\* The latest of two stored matchdays has just been replaced by one with other
\* fixtures.
C12_Witness ==
    /\ repo_call.op = "modify_latest"
    /\ repo_call.result[1] = 200
    /\ Cardinality(DOMAIN files) >= 2
    /\ repo_call.result[2].fixtures # <<>>

\* Accent stripping of one character, as the specification's fold_for_matching
\* does before team names are compared.
StripAccent(c) ==
    CASE c = "A_acute" -> "A" [] c = "a_acute" -> "a" [] OTHER -> c

\* A team name folded for matching: accents dropped, case folded, white space
\* collapsed.
FoldForMatching(name) ==
    SplitJoin(CasefoldText([i \in 1..Len(name) |-> StripAccent(TextStrip(name)[i])]))

\* The fixture names the team on a side that counts: the home side, or the
\* away side of a fixture that is not a bye.
FixtureNamesTeam(f, team) ==
    /\ FoldForMatching(team) # <<>>
    /\ \/ Contains(FoldForMatching(team), FoldForMatching(f.home_team))
       \/ /\ ~f.is_bye
          /\ f.away_team # None
          /\ Contains(FoldForMatching(team), FoldForMatching(f.away_team[1]))

\* C13: Matchday.to_dict(team_name) includes exactly the fixtures, in their
\* stored order, whose home or away team name contains the target team as a
\* case- and accent-insensitive substring (only the home team for a bye);
\* the other fixtures are excluded and an empty team name selects none.
C13_ProjectionSelectsInvolvedFixtures ==
    team_payload # None =>
        LET Named(f) == FixtureNamesTeam(f, requested_team[1])
            expected == SelectSeq(stored_fixtures, Named)
            payload == team_payload[1]
        IN  /\ Len(payload) = Len(expected)
            /\ \A i \in 1..Len(payload) :
                  /\ payload[i].isBye = expected[i].is_bye
                  /\ payload[i].homeScore = expected[i].home_score
                  /\ payload[i].awayScore = expected[i].away_score

\* C14: in the team-scoped serialization of a fixture that is not a bye and
\* involves the target team, exactly one of homeTeam and awayTeam is the
\* target team (compared folded) and the other side is the opponent: the
\* target team is never on both sides and never on neither, also when a
\* stored team string concatenates two team names.
C14_TargetIsolatedOnOneSide ==
    (team_payload # None /\ requested_team # Some(<<>>)) =>
        LET target == FoldForMatching(requested_team[1])
            payload == team_payload[1]
        IN  \A i \in 1..Len(payload) :
                ~payload[i].isBye =>
                    LET home_is_target == FoldForMatching(payload[i].homeTeam) = target
                        away_is_target ==
                            /\ payload[i].awayTeam # None
                            /\ FoldForMatching(payload[i].awayTeam[1]) = target
                    IN  home_is_target # away_is_target

\* A pairing has been resolved for the tracked team in some round of the
\* document.
FixtureResolved == cal_matches # <<>> \/ parsed_match # None

\* C15: calendar parsing raises an error when no fixture is resolved for the
\* tracked team, with or without a team-info block; when at least one fixture
\* is resolved and there is no team-info block it returns a calendar whose
\* team_info is the default record (the name, every other field None, empty
\* kits).
C15_ParseFailsOnlyWithoutFixtures ==
    cal_result.status \in {"error", "ok"} =>
        /\ ~FixtureResolved => cal_result.status = "error"
        /\ (FixtureResolved /\ ExtractTeamInfo(cal_lines) = None) =>
              /\ cal_result.status = "ok"
              /\ cal_result.calendar[1].team_info = TeamInfo(None, None, None)

RatioCellOf(e) == grid_rows[e.row][LocateHeader(grid_rows)[1].mapping["ratio"]]

\* goals_total / matches_played when both are known and matches_played is not
\* zero, else None.
QuotientOrNone(e) ==
    IF e.goals_total # None /\ e.matches_played # None /\ e.matches_played[1] # 0
    THEN Some(Ratio(e.goals_total[1], e.matches_played[1]))
    ELSE None

\* C17 as stated: in the grid parser a scorer whose ratio cell is blank has
\* goals_per_match = goals_total / matches_played when both are known and
\* matches_played is not zero, and None otherwise; a scorer whose ratio cell
\* is present has the parsed value of that cell, unchanged.
C17_RatioBlankOrPresent ==
    grid_table.status = "ok" =>
        \A k \in 1..Len(grid_table.scorers) :
            LET e == grid_table.scorers[k]
            IN  IF Stringify(RatioCellOf(e)) = <<>>
                THEN e.goals_per_match = QuotientOrNone(e)
                ELSE e.goals_per_match = ParseRatioCell(RatioCellOf(e))

\* C17, amended: a scorer whose ratio cell yields no number (blank, or text
\* that is not a number) has goals_per_match = goals_total / matches_played
\* when both are known and matches_played is not zero, and None otherwise; a
\* scorer whose ratio cell parses to a number has that number, unchanged.
C17_RatioComputedWhenNotParsed ==
    grid_table.status = "ok" =>
        \A k \in 1..Len(grid_table.scorers) :
            LET e == grid_table.scorers[k]
            IN  IF ParseRatioCell(RatioCellOf(e)) = None
                THEN e.goals_per_match = QuotientOrNone(e)
                ELSE e.goals_per_match = ParseRatioCell(RatioCellOf(e))

\* A parsed grid with a scorer of 4 goals in 2 matches and a blank ratio cell,
\* whose goals_per_match is 2, and a scorer with 0 matches and no ratio.
C17_Witness ==
    /\ grid_table.status = "ok"
    /\ \E k \in 1..Len(grid_table.scorers) :
          /\ Stringify(RatioCellOf(grid_table.scorers[k])) = <<>>
          /\ grid_table.scorers[k].goals_total = Some(4)
          /\ grid_table.scorers[k].matches_played = Some(2)
          /\ grid_table.scorers[k].goals_per_match = Some([num |-> 2, den |-> 1])
    /\ \E k \in 1..Len(grid_table.scorers) :
          /\ grid_table.scorers[k].matches_played = Some(0)
          /\ grid_table.scorers[k].goals_total = Some(4)
          /\ grid_table.scorers[k].goals_per_match = None

\* Every one of the six logical columns resolves to a column of the row.
AllColumnsResolve(row) == \A key \in HeaderKeys : AliasColumns(row, key) # {}

\* The sheet has a header row, and index i is the first one.
FirstHeaderRow(i) ==
    /\ i \in 1..Len(grid_rows)
    /\ ~RowIsEmpty(grid_rows[i]) /\ AllColumnsResolve(grid_rows[i])
    /\ \A j \in 1..(i - 1) : RowIsEmpty(grid_rows[j]) \/ ~AllColumnsResolve(grid_rows[j])

\* The grid parse fails when no header row is located or no data row is
\* recovered, and a located header resolves all six columns; a ValueError
\* has no other cause.
GridFailsWithoutHeaderOrRows ==
    /\ grid_table.status = "ok" =>
          /\ \E i \in 1..Len(grid_rows) : FirstHeaderRow(i)
          /\ grid_table.scorers # <<>>
          /\ \A k \in 1..Len(grid_table.scorers) :
                \E i \in 1..(grid_table.scorers[k].row - 1) : FirstHeaderRow(i)
    /\ grid_table.status = "error" /\ grid_table.message # "IndexError" =>
          \/ ~\E i \in 1..Len(grid_rows) : FirstHeaderRow(i)
          \/ \A i, j \in 1..Len(grid_rows) :
                FirstHeaderRow(i) /\ j > i =>
                    \/ RowIsEmpty(grid_rows[j])
                    \/ Stringify(grid_rows[j][Min(AliasColumns(grid_rows[i], "player"))]) = <<>>

\* The free-text parse fails when no header band is located or no data row
\* is recovered.
PdfFailsWithoutHeaderOrRows ==
    pdf_outcome.status = "ok" =>
        /\ \E i \in 1..Len(pdf_lines) : IsHeaderBand(pdf_lines[i])
        /\ pdf_outcome.scorers # <<>>

\* C18: for both top-scorer input shapes parsing fails (no table is returned)
\* when no header row or band is located and when zero data rows are
\* recovered; in the grid shape a header row is accepted only if all six
\* logical columns resolve to a column.
C18_ParseFailsWithoutHeaderOrRows ==
    GridFailsWithoutHeaderOrRows /\ PdfFailsWithoutHeaderOrRows

\* C19: row reassembly is idempotent, merge(merge(L)) = merge(L) for every
\* sequence L of normalized lines; and when every line of L satisfies the
\* row-start predicate, merge(L) is L itself, same lines in the same order.
C19_MergeIdempotent ==
    /\ merged_twice # None => merged_twice = merged_once
    /\ (merged_once # None /\ \A i \in 1..Len(merge_lines) : IsRowStart(merge_lines[i]))
          => merged_once = Some(merge_lines)

\* merge has run twice on an input where it joined a fragment to a row and
\* kept more than one row.
C19_Witness ==
    /\ merged_twice # None
    /\ Len(merged_once[1]) > 1
    /\ Len(merged_once[1]) < Len(merge_lines)
    /\ \E k \in 1..Len(merged_once[1]) :
          \A i \in 1..Len(merge_lines) : merged_once[1][k] # merge_lines[i]

\* Neither attempt of the decoder succeeded and the section holds fewer than
\* nine numeric tokens.
FallbackWithFewTokens ==
    stats_result.path = "fallback" /\ Len(stats_tokens) < ExpectedValues

\* The numeric tokens in order, every missing trailing statistic filled with
\* the value of the last token, or with 0 when there is no token.
TokensThenLast(tokens) ==
    [i \in 1..ExpectedValues |->
        IF i <= Len(tokens) THEN ToInt(tokens[i])
        ELSE IF tokens = <<>> THEN 0
        ELSE ToInt(tokens[Len(tokens)])]

\* C20 as stated: when neither attempt succeeds and fewer than nine numeric
\* tokens exist, the statistics are the tokens in order followed by the value
\* of the last token in every missing place (0 only when no token exists).
C20_FallbackPadsWithLastToken ==
    FallbackWithFewTokens => stats_result.values = TokensThenLast(stats_tokens)

\* C20, amended: as stated, except that a section made of one token of more
\* than two digits decodes to nine zeros.
C20_FallbackPadsUnlessOneLongToken ==
    FallbackWithFewTokens =>
        IF Len(stats_tokens) = 1 /\ Len(stats_tokens[1]) > 2
        THEN stats_result.values = [i \in 1..ExpectedValues |-> 0]
        ELSE stats_result.values = TokensThenLast(stats_tokens)

\* A section of at least two tokens, the last one not zero, decoded by the
\* fallback: the last statistic is that token's value.
C20_Witness ==
    /\ FallbackWithFewTokens
    /\ Len(stats_tokens) >= 2
    /\ ToInt(stats_tokens[Len(stats_tokens)]) # 0
    /\ stats_result.values[1] # stats_result.values[ExpectedValues]
    /\ stats_result.values[ExpectedValues] = ToInt(stats_tokens[Len(stats_tokens)])

\* C21: every fixture the matchday extractor has emitted has home_score and
\* away_score both present or both None, and has away_team None only if it
\* is a bye.
C21_ScoresPairedAwayOnlyMissingOnBye ==
    \A k \in 1..Len(fixtures) :
        /\ (fixtures[k].home_score = None) <=> (fixtures[k].away_score = None)
        /\ fixtures[k].away_team = None => fixtures[k].is_bye

\* The extractor has emitted a bye and a pairing without scores.
C21_Witness ==
    /\ \E k \in 1..Len(fixtures) : fixtures[k].is_bye /\ fixtures[k].away_team = None
    /\ \E k \in 1..Len(fixtures) :
          /\ ~fixtures[k].is_bye /\ fixtures[k].away_team # None
          /\ fixtures[k].home_score = None /\ fixtures[k].away_score = None

SheetWidth(rows) ==
    IF rows = <<>> THEN 0
    ELSE CHOOSE w \in {Len(rows[i]) : i \in 1..Len(rows)} :
            \A i \in 1..Len(rows) : Len(rows[i]) <= w

\* The sheet with every row filled up to the widest row with blank cells.
WithTrailingBlanks(rows) ==
    [i \in 1..Len(rows) |->
        [c \in 1..SheetWidth(rows) |->
            IF c <= Len(rows[i]) THEN rows[i][c] ELSE NoneCell]]

\* C23: in the grid parser a data row with fewer cells than the header is
\* parsed with its missing trailing cells read as blank: the parse gives the
\* table (scorer entries with the ratio fallback applied) that it gives for
\* the sheet whose rows are filled up with blank cells, not an error.
C23_MissingTrailingCellsReadAsBlank ==
    grid_table.status # "none" => grid_table = GridParse(WithTrailingBlanks(grid_rows))

\* The widths allowed for the k-th statistic.
AllowedWidths(k) == {LengthRules[k][j] : j \in 1..Len(LengthRules[k])}

RECURSIVE SplitsFrom(_, _)
\* The ways to give widths to statistics k..9 so that they take n digits.
SplitsFrom(k, n) ==
    IF k > ExpectedValues THEN IF n = 0 THEN {<<>>} ELSE {}
    ELSE UNION { { <<l>> \o rest : rest \in SplitsFrom(k + 1, n - l) } :
                 l \in {x \in AllowedWidths(k) : x <= n} }

RECURSIVE CutValues(_, _)
\* The numbers read off the digits with the given widths.
CutValues(digits, widths) ==
    IF widths = <<>> THEN <<>>
    ELSE <<ToInt(SubSeq(digits, 1, widths[1]))>>
         \o CutValues(SubSeq(digits, widths[1] + 1, Len(digits)), Tail(widths))

\* The splits of the digits into nine fields of allowed widths that use all
\* digits and pass the full consistency test.
ConsistentSplits(digits) ==
    {w \in SplitsFrom(1, Len(digits)) : StatsAreConsistent(CutValues(digits, w))}

\* Split w is tried no later than split v by a search that tries the wider
\* width of each statistic first.
TriedNoLater(w, v) ==
    \/ w = v
    \/ \E k \in 1..Len(w) : /\ w[k] > v[k]
                            /\ \A j \in 1..(k - 1) : w[j] = v[j]

\* C24: _segment_digits_sequence returns a result exactly when some split of
\* the digits into nine fields of allowed widths, using all digits, passes
\* the full consistency test (the pruning discards no such split), and the
\* result is the first such split in the order of the search, wider widths
\* first.
C24_SegmentationFindsFirstConsistentSplit ==
    seg_solution.done =>
        LET splits == ConsistentSplits(seg_digits)
        IN  /\ seg_solution.values # NoList <=> splits # {}
            /\ splits # {} =>
                  \E w \in splits :
                      /\ seg_solution.values = CutValues(seg_digits, w)
                      /\ \A v \in splits : TriedNoLater(w, v)

\* The segmentation has returned for digits that have two consistent splits
\* with different values.
C24_Witness ==
    /\ seg_solution.done
    /\ \E w, v \in ConsistentSplits(seg_digits) :
          CutValues(seg_digits, w) # CutValues(seg_digits, v)

\* The points of a one-letter form token G, E or P in either case; None for
\* any other token.
FormPoints(token) ==
    IF Len(token) # 1 THEN None
    ELSE CASE token[1] \in {"G", "g"} -> Some(3)
           [] token[1] \in {"E", "e"} -> Some(1)
           [] token[1] \in {"P", "p"} -> Some(0)
           [] OTHER -> None

\* Token i starts a maximal run of form tokens.
StartsFormRun(tokens, i) ==
    /\ FormPoints(tokens[i]) # None
    /\ i = 1 \/ FormPoints(tokens[i - 1]) = None

\* The positions that give one output token each: the tokens that are no
\* form tokens and the first token of each maximal run.
KeptPositions(tokens) ==
    {i \in 1..Len(tokens) : FormPoints(tokens[i]) = None \/ StartsFormRun(tokens, i)}

RECURSIVE RunPoints(_, _)
\* The sum of the points of the form tokens from position i to the end of
\* their run.
RunPoints(tokens, i) ==
    IF i > Len(tokens) \/ FormPoints(tokens[i]) = None THEN 0
    ELSE FormPoints(tokens[i])[1] + RunPoints(tokens, i + 1)

\* C25: _normalize_stats_section replaces each maximal run of form tokens
\* (G = 3, E = 1, P = 0, in either case) by one numeral, the sum of their
\* points, and leaves every other token unchanged and in its place: the
\* output has one token per other token plus one per maximal run.
C25_FormRunsBecomeTheirSum ==
    form_normalized.done =>
        /\ Len(form_normalized.tokens) = Cardinality(KeptPositions(form_tokens))
        /\ \A i \in KeptPositions(form_tokens) :
              form_normalized.tokens[Cardinality({j \in KeptPositions(form_tokens) : j <= i})]
                  = IF FormPoints(form_tokens[i]) = None THEN form_tokens[i]
                    ELSE DecimalText(RunPoints(form_tokens, i))

\* A section with two runs of form tokens around another token, one of the
\* runs of several letters in both cases, has been normalised.
C25_Witness ==
    /\ form_normalized.done
    /\ Len(form_tokens) = 4
    /\ FormPoints(form_tokens[1]) # None /\ FormPoints(form_tokens[2]) # None
    /\ form_tokens[1] # Upper(form_tokens[1]) /\ form_tokens[2] = Upper(form_tokens[2])
    /\ FormPoints(form_tokens[3]) = None
    /\ FormPoints(form_tokens[4]) # None
    /\ Len(form_normalized.tokens) = 3

\* The step reads an inline "TEAM h - a TEAM2" line.
InlineLineRead == md_count' = md_count + 1 /\ InlineSplit(md_line') # 0

\* The fixture that was open and complete before the step is emitted by it,
\* right before the last fixture.
OpenFixtureEmittedFirst ==
    pending_home # None /\ pending_away # None =>
        /\ Len(fixtures') = Len(fixtures) + 2
        /\ fixtures'[Len(fixtures) + 1].home_team = pending_home[1]
        /\ fixtures'[Len(fixtures) + 1].away_team = pending_away

\* The last fixture after the step is the one written on the line read.
InlineFixtureEmitted ==
    /\ Len(fixtures') > Len(fixtures)
    /\ LET i == InlineSplit(md_line')
           f == fixtures'[Len(fixtures')]
       IN  /\ f.home_team = NormaliseTeamName(<<SubSeq(md_line', 1, i)>>)
           /\ f.away_team = Some(NormaliseTeamName(<<SubSeq(md_line', i + 4, Len(md_line'))>>))
           /\ f.home_score = Some(IntOf(md_line'[i + 1]))
           /\ f.away_score = Some(IntOf(md_line'[i + 3]))
           /\ ~f.is_bye

\* The buffers after the step, but for awaiting_away, are reset.
PendingBuffersReset ==
    /\ team_buffer' = <<>>
    /\ pending_home' = None /\ pending_away' = None /\ pending_scores' = None
    /\ pending_date' = None /\ pending_time' = None

\* C26: after an inline full-pattern line, a fixture that was open and
\* complete has been emitted before the inline fixture, the inline fixture
\* has been emitted, and all buffers are reset: team_buffer empty, the five
\* pending values None and awaiting_away False.
C26_InlineLineEmitsAndResetsAll ==
    [][InlineLineRead =>
          /\ OpenFixtureEmittedFirst
          /\ InlineFixtureEmitted
          /\ PendingBuffersReset
          /\ awaiting_away' = FALSE]_vars

\* The step is the round scan reading one more line.
CalLineRead == cal_result.status = "reading" /\ Len(cal_lines') = Len(cal_lines) + 1

\* The line is a round marker, dated or not.
IsRoundMarker(line) ==
    SearchJornada(line) # None \/ SearchJornadaWithoutDate(line) # None

\* The round that is open has a number, a date and lines that hold a pairing
\* of the tracked team.
OpenRoundResolves ==
    /\ current_matchday # None /\ current_date # None /\ jornada_lines # <<>>
    /\ ParseRealTajoMatchFromLines(jornada_lines, SortedNames(team_names),
                                   RealTajoName(team_names)) # None

\* The step appends exactly one match, with the number of the round that was
\* open, after the matches of the earlier rounds.
OneMatchOfOpenRoundAppended ==
    /\ Len(cal_matches') = Len(cal_matches) + 1
    /\ SubSeq(cal_matches', 1, Len(cal_matches)) = cal_matches
    /\ cal_matches'[Len(cal_matches')].matchday = current_matchday[1]

EventsOf(username) ==
    {i \in 1..Len(log_lines) :
        /\ log_lines[i].username = username
        /\ log_lines[i].kind \in {"login", "lost", "left"}}

\* The most recent login or logout of the player.
LastEventOf(username) ==
    CHOOSE i \in EventsOf(username) : \A j \in EventsOf(username) : j <= i

\* The players whose most recent event is a login.
LoggedIn ==
    {u \in LogUsers :
        EventsOf(u) # {} /\ log_lines[LastEventOf(u)].kind = "login"}

\* C28: retrieve_online_players returns exactly the players whose most
\* recent login or logout in the log is a login, each once and with the
\* endpoint and the time of that login, in ascending order of login_time;
\* when the log file is missing it returns the empty list.
C28_OnlinePlayersAreLastLogins ==
    online_players.done =>
        /\ ~log_exists => online_players.sessions = <<>>
        /\ {online_players.sessions[k].username : k \in 1..Len(online_players.sessions)}
              = LoggedIn
        /\ Len(online_players.sessions) = Cardinality(LoggedIn)
        /\ \A k \in 1..Len(online_players.sessions) :
              online_players.sessions[k].username \in LoggedIn =>
                  online_players.sessions[k]
                      = PlayerSession(log_lines[LastEventOf(online_players.sessions[k].username)])
        /\ \A k, m \in 1..Len(online_players.sessions) :
              k < m => ~TimeBefore(online_players.sessions[m].login_time,
                                   online_players.sessions[k].login_time)

\* A pairing with both teams is open and nothing is buffered.
CompleteFixtureOpen ==
    /\ pending_home # None /\ pending_away # None /\ ~awaiting_away
    /\ team_buffer = <<>>

\* The line is the first team line of a fixture: an inline result, a team
\* with its score, or a team-name fragment (no header, bye or score line).
OpensNextFixture(line) ==
    /\ Lower(line[1]) # "jornada" /\ Lower(line[1]) \notin HeaderPrefixes
    /\ \/ InlineSplit(line) # 0
       \/ TrailingScoreMatch(line)
       \/ ~HasDescansa(line) /\ ~ScoreOnlyMatch(line) /\ IsTeamFragment(line)

\* C29: the date and the time attached to an emitted fixture were read from
\* a line of the fixture's own block: when the first team line of the next
\* fixture is read while a complete pairing is open, the pairing is emitted
\* with the date and time it had before that line, never with a date or
\* time written on that line.
C29_DateOfNextFixtureNotAttached ==
    [][(md_count' = md_count + 1 /\ CompleteFixtureOpen /\ OpensNextFixture(md_line')) =>
          /\ Len(fixtures') > Len(fixtures)
          /\ fixtures'[Len(fixtures) + 1].home_team = pending_home[1]
          /\ fixtures'[Len(fixtures) + 1].date = pending_date
          /\ fixtures'[Len(fixtures) + 1].time = pending_time]_vars

=============================================================================
